---- MODULE Spec2Model ----
(***************************************************************************)
(* Model of the Ebook Central portal client (library_manager.py):          *)
(* EbookCentralPortal.test_connection, login, search_book, download_book,  *)
(* of the worker objects that drive it (SearchWorker.py, DownloadWorker.py *)
(* and their copies in library_assistant.py) and of the application's     *)
(* search and download handlers (LibraryAssistantApp).                     *)
(*                                                                         *)
(* Python strings that the code searches with `in`, strips or tests for    *)
(* truth are modelled as sequences of tokens (a token is a TLA+ string);   *)
(* "" is <<>>, and the token " " is whitespace.                            *)
(***************************************************************************)
EXTENDS Integers, Sequences, FiniteSets, TLC

VARIABLES
    debug_callback, \* self.debug_callback: "None", or what the callable does when
                    \* it is called: "returns" or "raises"
    username,       \* self.username, a token sequence ("" is <<>>)
    password,       \* self.password
    is_logged_in,   \* self.is_logged_in
    op,             \* the public method being executed (or the last one executed)
    pc,             \* where that call stands: "return" when it is returning ret,
                    \* "idle" once it has returned
    args,           \* the arguments of that call
    resp,           \* the response the call received last (home_response, ...)
    trace,          \* what the call has done to the session so far, in order
    login_success,  \* the local login_success of search_book and download_book:
                    \* "none" until login() has returned, then "True" or "False"
    dl,             \* download_book's locals and what the call did to the disk
    ret,            \* what the last finished call returned (or raised)
    workers,        \* the worker objects created so far (SearchWorker, DownloadWorker),
                    \* each with the position of the thread that runs it
    signals,        \* the signals the workers have emitted, in order of emission
    app             \* LibraryAssistantApp: its books, cards, buttons and the queue of
                    \* worker signals waiting for the main thread

vars ==
    <<debug_callback, username, password, is_logged_in, op, pc, args, resp, trace,
      login_success, dl, ret, workers, signals, app>>

\* What no step of a portal call changes: the callback given to the constructor,
\* the worker objects, their signals and the application's own state.
outside == <<debug_callback, workers, signals, app>>

\* ------------------------------------------------------------------ strings

\* Python's `needle in hay` on strings.
Contains(hay, needle) ==
    \E i \in 0..(Len(hay) - Len(needle)) :
        \A j \in 1..Len(needle) : hay[i + j] = needle[j]

\* str.strip(): leading and trailing whitespace removed.
RECURSIVE LStrip(_)
LStrip(s) == IF s # <<>> /\ Head(s) = " " THEN LStrip(Tail(s)) ELSE s

RECURSIVE RStrip(_)
RStrip(s) ==
    IF s # <<>> /\ s[Len(s)] = " " THEN RStrip(SubSeq(s, 1, Len(s) - 1)) ELSE s

Strip(s) == RStrip(LStrip(s))

\* Truth value of a Python string: non-empty.
Truthy(s) == s # <<>>

\* A string with nothing but whitespace in it.
IsBlank(s) == Strip(s) = <<>>

\* --------------------------------------------------------------- constants

base_url == <<"https://", "ebookcentral.proquest.com">>
lib_id == <<"ridley">>
ezproxy_url == <<"https://", "ezproxy.ridley.edu.au", "/login">>
home_url == base_url \o <<"/lib/">> \o lib_id \o <<"/home.action">>

\* ---------------------------------------------------------------- the wire

\* What a request can end in: a response, or one of the exceptions the code
\* tells apart (requests.Timeout, requests.ConnectionError, anything else).
Exceptions == {"Timeout", "ConnectionError", "Exception"}

\* A response as the code reads it: status_code, url (after redirects),
\* text (body) and, for the pages the code parses as HTML, the elements of
\* the document in document order (page).
Resp(status, url, body, page) ==
    [out |-> "ok", status |-> status, url |-> url, body |-> body, page |-> page,
     ctype |-> <<>>, clen |-> 0]

\* A request that raised instead of returning a response.
Raise(exc) ==
    [out |-> exc, status |-> 0, url |-> <<>>, body |-> <<>>, page |-> <<>>,
     ctype |-> <<>>, clen |-> 0]

\* The response to the file request, read as a stream: its content-type
\* header and its content-length header (0 when the header is missing).
FileResp(status, ctype, clen) ==
    [out |-> "ok", status |-> status, url |-> <<>>, body |-> <<>>, page |-> <<>>,
     ctype |-> ctype, clen |-> clen]

NoResp == Resp(0, <<>>, <<>>, <<>>)

\* One entry of the trace: something done to the session or the file system,
\* and how it ended ("ok" or the exception raised).
Event(req, r) == [req |-> req, out |-> r.out, status |-> r.status]

CookiesClear == [req |-> "cookies.clear", out |-> "ok", status |-> 0]

login_page_url == ezproxy_url \o <<"?url=", "Authentication.aspx">>
ebc_url == base_url \o <<"/ebc/", "lib/">> \o lib_id

\* Answers of the portal to GET {base}/lib/{lib}/home.action.
HomeResponses ==
    { Resp(200, home_url, <<"ProQuest", "Ebook", "Central", "My", "Bookshelf">>, <<>>),
      Resp(200, login_page_url, <<"Ebook", "Central", "Sign", "in">>, <<>>),
      Resp(200, login_page_url, <<"Please", "log", "in">>, <<>>) }
    \cup { Raise(e) : e \in Exceptions }

\* Answers of EZproxy (after redirects) to the credential POST.
PostResponses ==
    { Resp(200, home_url, <<"Welcome">>, <<>>),
      Resp(200, login_page_url, <<"Authentication", "successful">>, <<>>),
      Resp(200, login_page_url, <<"My", "Bookshelf">>, <<>>),
      Resp(200, ebc_url, <<"Loading">>, <<>>),
      Resp(200, login_page_url, <<"ProQuest", "Ebook", "Central", "Bookshelf">>, <<>>),
      Resp(200, login_page_url, <<"ProQuest", "Ebook", "Central">>, <<>>),
      Resp(200, login_page_url, <<"Bookshelf">>, <<>>),
      Resp(401, login_page_url, <<"Invalid", "username", "or", "password">>, <<>>) }
    \cup { Raise(e) : e \in Exceptions }

\* ----------------------------------------------------------- test_connection

\* The direct-access check of test_connection.
AlreadyLoggedIn(home_response) ==
    /\ Contains(home_response.body, <<"Ebook", "Central">>)
    /\ Contains(home_response.body, <<"Bookshelf">>)

\* success_indicators cut down to its first three entries.
SuccessIndicators_FirstThree(login_response) ==
    \/ Contains(login_response.url,
                <<"ebookcentral.proquest.com", "/lib/", "ridley", "/home.action">>)
    \/ Contains(login_response.body, <<"Authentication", "successful">>)
    \/ Contains(login_response.body, <<"My", "Bookshelf">>)

\* any(success_indicators) of test_connection.
SuccessIndicators(login_response) ==
    \/ Contains(login_response.url,
                <<"ebookcentral.proquest.com", "/lib/", "ridley", "/home.action">>)
    \/ Contains(login_response.body, <<"Authentication", "successful">>)
    \/ Contains(login_response.body, <<"My", "Bookshelf">>)
    \/ Contains(login_response.url, <<"/ebc/">>)
    \/ /\ Contains(login_response.body, <<"ProQuest", "Ebook", "Central">>)
       /\ Contains(login_response.body, <<"Bookshelf">>)

\* The result dict test_connection builds.
TCResult(success, message, status_code, flag) ==
    [success |-> success, message |-> message, status_code |-> status_code,
     is_logged_in |-> flag]

\* A home-page step that swallows a failed GET and goes on to the POST.
TCHomeBody_SwallowsFailure(logged, home_response) ==
    IF home_response.out = "ok" /\ AlreadyLoggedIn(home_response) THEN
        [next |-> "return", exc |-> "none", logged |-> TRUE,
         result |-> TCResult(TRUE, "Already logged in (direct access)",
                             home_response.status, TRUE)]
    ELSE
        [next |-> "post", exc |-> "none", logged |-> logged,
         result |-> TCResult(FALSE, "", home_response.status, FALSE)]

\* A home-page step whose direct-access branch returns success without
\* setting self.is_logged_in.
TCHomeBody_ForgetsFlag(logged, home_response) ==
    IF home_response.out # "ok" THEN
        [next |-> "raise", exc |-> home_response.out, logged |-> logged,
         result |-> TCResult(FALSE, "", 0, FALSE)]
    ELSE IF AlreadyLoggedIn(home_response) THEN
        [next |-> "return", exc |-> "none", logged |-> logged,
         result |-> TCResult(TRUE, "Already logged in (direct access)",
                             home_response.status, TRUE)]
    ELSE
        [next |-> "post", exc |-> "none", logged |-> logged,
         result |-> TCResult(FALSE, "", home_response.status, FALSE)]

\* The try block of test_connection from the home-page GET to just before
\* the credential POST. next: "return" (result is returned), "raise" (exc
\* leaves the try block) or "post" (go on to the POST); logged: the value
\* of self.is_logged_in afterwards.
TCHomeBody(logged, home_response) ==
    IF home_response.out # "ok" THEN
        [next |-> "raise", exc |-> home_response.out, logged |-> logged,
         result |-> TCResult(FALSE, "", 0, FALSE)]
    ELSE IF AlreadyLoggedIn(home_response) THEN
        [next |-> "return", exc |-> "none", logged |-> TRUE,
         result |-> TCResult(TRUE, "Already logged in (direct access)",
                             home_response.status, TRUE)]
    ELSE
        [next |-> "post", exc |-> "none", logged |-> logged,
         result |-> TCResult(FALSE, "", home_response.status, FALSE)]

\* The try block of test_connection from the credential POST to its return.
\* home_status is result["status_code"] as the first part left it.
TCPostBody(logged, home_status, login_response) ==
    IF login_response.out # "ok" THEN
        [next |-> "raise", exc |-> login_response.out, logged |-> logged,
         result |-> TCResult(FALSE, "", home_status, FALSE)]
    ELSE IF SuccessIndicators(login_response) THEN
        [next |-> "return", exc |-> "none", logged |-> TRUE,
         result |-> TCResult(TRUE, "Login successful", login_response.status, TRUE)]
    ELSE
        [next |-> "return", exc |-> "none", logged |-> FALSE,
         result |-> TCResult(FALSE, "Login failed. Check credentials.",
                             login_response.status, FALSE)]

\* The message each except clause of test_connection stores.
TCHandlerMessage(exc) ==
    CASE exc = "Timeout" -> "Connection timed out"
      [] exc = "ConnectionError" -> "Connection error (check network)"
      [] OTHER -> "Error: Exception"

\* The three except clauses of test_connection: whatever leaves the try
\* block is turned into a returned result with success False.
TCExcept(b) ==
    IF b.next # "raise" THEN b
    ELSE [b EXCEPT !.next = "return", !.exc = "none",
                   !.result.success = FALSE,
                   !.result.message = TCHandlerMessage(b.exc)]

\* login(): what it hands to its caller once test_connection has ended as t:
\* result["success"], or False when an exception came out of it.
LoginReturn(t) ==
    IF t.next = "raise"
    THEN [raise |-> "none", value |-> FALSE]
    ELSE [raise |-> "none", value |-> t.result.success]

\* A guard that logs in exactly when the client is already logged in.
NeedsLogin_Inverted(user, pass, logged) == Truthy(user) /\ Truthy(pass) /\ logged

\* A guard that logs in whenever credentials are set.
NeedsLogin_IgnoresFlag(user, pass, logged) == Truthy(user) /\ Truthy(pass)

\* The guard of search_book and download_book:
\* self.username and self.password and not self.is_logged_in.
NeedsLogin(user, pass, logged) == Truthy(user) /\ Truthy(pass) /\ ~logged

\* ------------------------------------------------------------------- pages

\* An element of an HTML page, with the attributes the code reads; name,
\* action, method and fields are those of a <form> (fields: its <input> and
\* <select> descendants in document order).
Element(tag, cls, id, href, text) ==
    [tag |-> tag, cls |-> cls, id |-> id, href |-> href, text |-> text,
     name |-> "", action |-> <<>>, method |-> "absent", fields |-> <<>>]

\* A <form> element; id is a single token here. method is "absent" when the
\* attribute is missing.
FormElement(id, name, action, method, fields) ==
    [tag |-> "form", cls |-> "", id |-> <<id>>, href |-> <<>>, text |-> <<>>,
     name |-> name, action |-> action, method |-> method, fields |-> fields]

\* An <input> or <select> of a form; options are the <option> children of a
\* select, each with its value attribute ("absent" when missing) and text.
Field(tag, name, value, options) ==
    [tag |-> tag, name |-> name, value |-> value, options |-> options]

Option(value, text) == [value |-> value, text |-> text]

\* The largest number of elements of a page.
MaxElems == 2

Pages(elems) == UNION { [1..n -> elems] : n \in 0..MaxElems }

\* Index of the first element of page after position k that satisfies P,
\* 0 when there is none (soup.find with k = 0, tag.find_next otherwise).
FindNext(page, k, P(_)) ==
    LET I == { i \in (k + 1)..Len(page) : P(page[i]) } IN
    IF I = {} THEN 0 ELSE CHOOSE i \in I : \A j \in I : i <= j

Find(page, P(_)) == FindNext(page, 0, P)

\* re.search(r'docID=([^&]+)', href): group 1 of the first match, "" when
\* nothing matches. The id is the one token that follows "docID=".
DocIDMatch(href) ==
    LET I == { i \in 1..(Len(href) - 1) : href[i] = "docID=" /\ href[i + 1] # "&" } IN
    IF I = {} THEN "" ELSE href[(CHOOSE i \in I : \A j \in I : i <= j) + 1]

\* Tokens that are runs of digits.
Digits == {"7", "101", "102"}

\* re.findall(r'book_results_item_(\d+)', ...) on one element: the digits,
\* "" when the element does not match.
BookItemMatch(e) ==
    IF Len(e.id) >= 2 /\ e.id[1] = "book_results_item_" /\ e.id[2] \in Digits
    THEN e.id[2] ELSE ""

IsBookLink(e) == e.tag = "a" /\ Contains(e.href, <<"docID=">>)
IsH3(e) == e.tag = "h3"
IsTitleH3(e) == e.tag = "h3" /\ e.cls = "title"
IsAuthLink(e) == e.tag = "a" /\ e.cls = "auth-meta-link"
HasBookItem(e) == BookItemMatch(e) # ""
HasDetail(e) == DocIDMatch(e.href) # ""

\* re.findall(r'window\.__INITIAL_STATE__\s*=\s*({.*?});', text) is non-empty.
HasInitialState(e) ==
    \E i \in 1..Len(e.text) : \E j \in (i + 3)..(Len(e.text) - 1) :
        /\ e.text[i] = "window.__INITIAL_STATE__"
        /\ e.text[i + 1] = "="
        /\ e.text[i + 2] = "{"
        /\ e.text[j] = "}"
        /\ e.text[j + 1] = ";"

\* ------------------------------------------------------------- search_book

\* A result dict of search_book; keys are the keys it has.
SearchResult(keys, status, message, title, author, view_url, download_url, book_id) ==
    [keys |-> keys, status |-> status, message |-> message, title |-> title,
     author |-> author, format |-> IF status = "Found" THEN "PDF/EPUB" ELSE "",
     view_url |-> view_url, download_url |-> download_url, book_id |-> book_id]

FoundKeys ==
    {"status", "title", "author", "format", "view_url", "download_url",
     "book_id", "ebook_id"}

\* str(e) of the exceptions a request raises.
ExcStr(exc) ==
    CASE exc = "Timeout" ->
            <<"HTTPSConnectionPool(host='ebookcentral.proquest.com', port=443): ",
              "Read ", "timed out", ". (read timeout=30)">>
      [] exc = "ConnectionError" ->
            <<"HTTPSConnectionPool(host='ebookcentral.proquest.com', port=443): ",
              "Max retries exceeded">>
      [] exc = "OSError" -> <<"[Errno 13] Permission denied">>
      [] exc = "FileNotFoundError" -> <<"[Errno 2] No such file or directory: ''">>
      [] exc = "UnboundLocalError" ->
            <<"cannot access local variable 'BeautifulSoup' where it is not ",
              "associated with a value">>
      [] OTHER -> <<"Exception">>

\* What search_book returns when login() fails.
SearchLoginRequired ==
    SearchResult({"status", "message"}, "Error", <<"Login required">>,
                 <<>>, <<>>, <<>>, <<>>, "")

\* The local variable author of search_book after "if author: author = author.strip()".
AuthorLocal(author) == IF Truthy(author) THEN Strip(author) ELSE author

\* search_query of search_book.
SearchQuery(title, author) ==
    IF Truthy(author) THEN Strip(title) \o <<" ">> \o Strip(author) ELSE Strip(title)

\* An except clause that reports a fixed message instead of str(e).
SearchExcept_FixedMessage(title, author, exc) ==
    SearchResult({"status", "title", "author", "message"}, "Error",
                 <<"Search failed">>, title, author, <<>>, <<>>, "")

\* The except clause of search_book.
SearchExcept(title, author, exc) ==
    SearchResult({"status", "title", "author", "message"}, "Error", ExcStr(exc),
                 title, author, <<>>, <<>>, "")

\* f"{base_url}/lib/{lib_id}/detail.action?docID={book_id}"
ViewUrl(book_id) ==
    base_url \o <<"/lib/">> \o lib_id \o <<"/detail.action?", "docID=", book_id>>

\* The first tier of search_book on a 200 response that has book links: the
\* result built from the first link whose href contains 'docID='.
DirectSearchResult(page, title, author) ==
    LET k == Find(page, IsBookLink)
        first_book == page[k]
        book_id == DocIDMatch(first_book.href)
        link_text == Strip(first_book.text)
        h == FindNext(page, k, IsH3)
        title_text == IF link_text # <<>> THEN link_text
                      ELSE IF h # 0 THEN Strip(page[h].text) ELSE link_text
        a == Find(page, IsAuthLink)
        author_text == IF a # 0 THEN Strip(page[a].text) ELSE author
        view_url == IF book_id # "" THEN ViewUrl(book_id) ELSE <<>>
        download_url == IF book_id # "" THEN view_url \o <<"&download=true">> ELSE <<>>
    IN  SearchResult(FoundKeys, "Found", <<>>,
                     IF title_text # <<>> THEN title_text ELSE title,
                     author_text, view_url, download_url, book_id)

\* A second tier that reports an error when it has run out of approaches.
PageSearchResult_ErrorWhenExhausted(page, title, author, soup_bound) ==
    LET b == Find(page, HasBookItem)
        d == Find(page, HasDetail)
    IN
    IF (b # 0 \/ d # 0) /\ ~soup_bound THEN
        SearchExcept(title, author, "UnboundLocalError")
    ELSE IF b # 0 \/ d # 0 THEN
        LET book_id == IF b # 0 THEN BookItemMatch(page[b]) ELSE DocIDMatch(page[d].href)
            t == IF Find(page, IsTitleH3) # 0 THEN Find(page, IsTitleH3)
                 ELSE Find(page, IsH3)
            title_text == IF t # 0 THEN Strip(page[t].text) ELSE title
            a == Find(page, IsAuthLink)
            author_text == IF a # 0 THEN Strip(page[a].text) ELSE author
            view_url == IF book_id # "" THEN ViewUrl(book_id) ELSE <<>>
            download_url == IF book_id # "" THEN view_url \o <<"&download=true">>
                            ELSE <<>>
        IN  SearchResult(FoundKeys, "Found", <<>>, title_text, author_text,
                         view_url, download_url, book_id)
    ELSE IF Find(page, HasInitialState) # 0 THEN
        SearchResult({"status", "title", "author", "message"}, "Error",
                     <<"Search results may be in JavaScript data - needs further analysis">>,
                     title, author, <<>>, <<>>, "")
    ELSE
        SearchResult({"status", "title", "author", "message"}, "Error",
                     <<"No results found after trying multiple approaches">>,
                     title, author, <<>>, <<>>, "")

\* A second tier without the check for embedded state data.
PageSearchResult_NoStateCheck(page, title, author, soup_bound) ==
    LET b == Find(page, HasBookItem)
        d == Find(page, HasDetail)
    IN
    IF (b # 0 \/ d # 0) /\ ~soup_bound THEN
        SearchExcept(title, author, "UnboundLocalError")
    ELSE IF b # 0 \/ d # 0 THEN
        LET book_id == IF b # 0 THEN BookItemMatch(page[b]) ELSE DocIDMatch(page[d].href)
            t == IF Find(page, IsTitleH3) # 0 THEN Find(page, IsTitleH3)
                 ELSE Find(page, IsH3)
            title_text == IF t # 0 THEN Strip(page[t].text) ELSE title
            a == Find(page, IsAuthLink)
            author_text == IF a # 0 THEN Strip(page[a].text) ELSE author
            view_url == IF book_id # "" THEN ViewUrl(book_id) ELSE <<>>
            download_url == IF book_id # "" THEN view_url \o <<"&download=true">>
                            ELSE <<>>
        IN  SearchResult(FoundKeys, "Found", <<>>, title_text, author_text,
                         view_url, download_url, book_id)
    ELSE
        SearchResult({"status", "title", "author", "message"}, "Not Found",
                     <<"No results found after trying multiple approaches">>,
                     title, author, <<>>, <<>>, "")

\* The second tier of search_book on the 200 results page, after the page
\* has been saved: regex ids, then embedded state, then Not Found.
\* soup_bound: whether the function-local "from bs4 import BeautifulSoup" of
\* the first tier has run, which it has only after a 200 answer there; the
\* name is local to the whole function, so using it unbound raises.
PageSearchResult(page, title, author, soup_bound) ==
    LET b == Find(page, HasBookItem)
        d == Find(page, HasDetail)
    IN
    IF (b # 0 \/ d # 0) /\ ~soup_bound THEN
        SearchExcept(title, author, "UnboundLocalError")
    ELSE IF b # 0 \/ d # 0 THEN
        LET book_id == IF b # 0 THEN BookItemMatch(page[b]) ELSE DocIDMatch(page[d].href)
            t == IF Find(page, IsTitleH3) # 0 THEN Find(page, IsTitleH3)
                 ELSE Find(page, IsH3)
            title_text == IF t # 0 THEN Strip(page[t].text) ELSE title
            a == Find(page, IsAuthLink)
            author_text == IF a # 0 THEN Strip(page[a].text) ELSE author
            view_url == IF book_id # "" THEN ViewUrl(book_id) ELSE <<>>
            download_url == IF book_id # "" THEN view_url \o <<"&download=true">>
                            ELSE <<>>
        IN  SearchResult(FoundKeys, "Found", <<>>, title_text, author_text,
                         view_url, download_url, book_id)
    ELSE IF Find(page, HasInitialState) # 0 THEN
        SearchResult({"status", "title", "author", "message"}, "Error",
                     <<"Search results may be in JavaScript data - needs further analysis">>,
                     title, author, <<>>, <<>>, "")
    ELSE
        SearchResult({"status", "title", "author", "message"}, "Not Found",
                     <<"No results found after trying multiple approaches">>,
                     title, author, <<>>, <<>>, "")

\* What search_book returns when the results page is not a 200.
SearchPageFailed(status) ==
    SearchResult({"status", "message"}, "Error",
                 <<"Failed to get search page: ", ToString(status)>>,
                 <<>>, <<>>, <<>>, <<>>, "")

\* The download button of the result with this id, the mark by which the
\* portal's pages show that a book can be downloaded.
IsDownloadButton(e, book_id) == e.id = <<"book_download_link_", book_id>>

\* Whether the first tier ends the search: a 200 response with a book link.
DirectSearchFound(search_response) ==
    /\ search_response.status = 200
    /\ Find(search_response.page, IsBookLink) # 0

\* Elements of the answers to GET {base}/lib/{lib}/search.action.
Tier1Elems ==
    { Element("a", "", <<>>, <<"detail.action?", "docID=", "101">>, <<"Alpha", " ">>),
      Element("a", "", <<>>, <<"detail.action?", "docID=", "102", "&", "p=1">>, <<" ">>),
      Element("a", "", <<>>, <<"detail.action?", "docID=", "&", "p=1">>, <<"Gamma">>),
      Element("a", "auth-meta-link", <<>>, <<"/author/", "ann">>, <<"Ann">>),
      Element("a", "auth-meta-link", <<>>, <<"/author/">>, <<" ">>),
      Element("h3", "", <<>>, <<>>, <<"Beta">>),
      Element("a", "", <<"book_download_link_", "101">>, <<>>, <<"Download">>) }

\* Elements of the answers to GET {base}/ebc/lib/{lib}/?query=...
Tier2Elems ==
    { Element("div", "pub-list-item-container", <<"book_results_item_", "7">>, <<>>, <<>>),
      Element("a", "", <<>>, <<"detail.action?", "docID=", "101">>, <<"Alpha">>),
      Element("h3", "title", <<>>, <<>>, <<"Beta", " ">>),
      Element("h3", "", <<>>, <<>>, <<" ">>),
      Element("a", "auth-meta-link", <<>>, <<"/author/", "ann">>, <<"Ann">>),
      Element("script", "", <<>>, <<>>,
              <<"window.__INITIAL_STATE__", "=", "{", "books", "}", ";">>),
      Element("div", "no-results", <<>>, <<>>, <<"No", " ", "results", " ", "found">>) }

SearchHomeResponses ==
    { Resp(200, home_url, <<>>, <<>>) } \cup { Raise(e) : e \in Exceptions }

\* A body that is no result data at all (a truncated JSON text); the
\* HTML parser reads it as a page without elements.
Unparseable == <<"{", "\"titles\":", "[">>

Tier1Responses ==
    { Resp(200, <<>>, <<>>, p) : p \in Pages(Tier1Elems) }
    \cup { Resp(200, <<>>, Unparseable, <<>>) }
    \cup { Resp(500, <<>>, <<>>, <<>>) }
    \cup { Raise(e) : e \in Exceptions }

Tier2Responses ==
    { Resp(200, <<>>, <<>>, p) : p \in Pages(Tier2Elems) }
    \cup { Resp(500, <<>>, <<>>, <<>>) }
    \cup { Raise(e) : e \in Exceptions }

\* How writing search_page.html can end.
FileOutcomes == {"ok", "OSError"}

Titles == { <<"Dune", " ">>, <<>> }
Authors == { <<>>, <<" ", "Herbert">> }

\* ----------------------------------------------------------- download_book

\* str.lower() on one token, and on a string.
LowerTok(t) ==
    CASE t = "POST" -> "post"
      [] t = "GET" -> "get"
      [] t = "Download" -> "download"
      [] t = "Get" -> "get"
      [] t = "Book" -> "book"
      [] t = "PDF" -> "pdf"
      [] t = "EPUB" -> "epub"
      [] t = ".PDF" -> ".pdf"
      [] t = "Help" -> "help"
      [] OTHER -> t

Lower(s) == [i \in 1..Len(s) |-> LowerTok(s[i])]

\* url.startswith('http')
StartsWithHttp(url) == url # <<>> /\ url[1] \in {"http://", "https://"}

\* urllib.parse.urljoin(base, ref) for a reference that is a path from the
\* root ("/..."): scheme and host of base, then ref.
UrlJoin(base, ref) == SubSeq(base, 1, 2) \o ref

IsFormById(e) == e.tag = "form" /\ e.id = <<"downloadForm">>
IsFormByName(e) == e.tag = "form" /\ e.name = "downloadForm"

\* A form lookup that takes the first form of the page, whatever its id.
FindDownloadForm_AnyForm(page) ==
    LET I == { i \in 1..Len(page) : page[i].tag = "form" } IN
    IF I = {} THEN 0 ELSE CHOOSE i \in I : \A j \in I : i <= j

\* soup.find('form', {'id': 'downloadForm'}) or soup.find('form', {'name':
\* 'downloadForm'}): the index of the form, 0 when there is none.
FindDownloadForm(page) ==
    IF Find(page, IsFormById) # 0 THEN Find(page, IsFormById)
    ELSE Find(page, IsFormByName)

\* form_action of step 2: the form's action resolved against base.
FormAction(form, base) ==
    IF form.action = <<>> THEN base
    ELSE IF ~StartsWithHttp(form.action) THEN UrlJoin(base, form.action)
    ELSE form.action

\* download_form.get('method', 'post').lower()
FormMethod(form) == IF form.method = "absent" THEN "post" ELSE LowerTok(form.method)

\* field.get('value', '')
AttrValue(x) == IF x.value = "absent" THEN "" ELSE x.value

\* A field value without the preference for PDF: a select gives its first
\* option.
FieldValue_FirstOption(field) ==
    IF field.name = "format" /\ field.tag = "select" /\ field.options # <<>>
    THEN AttrValue(field.options[1])
    ELSE AttrValue(field)

\* The value step 2 puts in form_data for one named <input>/<select>.
FieldValue(field) ==
    LET opts == field.options
        ByValue == { i \in 1..Len(opts) : opts[i].value = "pdf" }
        ByText == { i \in 1..Len(opts) : Contains(Lower(opts[i].text), <<"pdf">>) }
        First(I) == CHOOSE i \in I : \A j \in I : i <= j
    IN
    IF field.name # "format" THEN AttrValue(field)
    ELSE IF ByValue # {} THEN "pdf"
    ELSE IF ByText # {} THEN
        (IF opts[First(ByText)].value = "absent" THEN "pdf"
         ELSE opts[First(ByText)].value)
    ELSE IF field.tag = "select" /\ opts # <<>> THEN AttrValue(opts[1])
    ELSE AttrValue(field)

\* The dict built from the fields of kinds `tags`: a later field of the same
\* name overwrites an earlier one.
FieldDict(fields, tags, Value(_)) ==
    LET I == { i \in 1..Len(fields) : fields[i].tag \in tags /\ fields[i].name # "" }
        Last(n) == CHOOSE i \in I : fields[i].name = n
                                   /\ \A j \in I : fields[j].name = n => j <= i
    IN [ n \in { fields[i].name : i \in I } |-> Value(fields[Last(n)]) ]

\* form_data of step 2, docID added when the form has none and book_id is
\* not empty.
FormData(form, book_id) ==
    LET d == FieldDict(form.fields, {"input", "select"}, FieldValue) IN
    IF "docID" \notin DOMAIN d /\ book_id # ""
    THEN [ n \in DOMAIN d \cup {"docID"} |-> IF n = "docID" THEN book_id ELSE d[n] ]
    ELSE d

\* final_form_data of step 4: the <input> fields as they are.
FinalFormData(form) == FieldDict(form.fields, {"input"}, AttrValue)

DownloadTerms ==
    { <<"download">>, <<"get", " ", "book">>, <<"get", " ", "pdf">>,
      <<"get", " ", "epub">> }

\* The test of the link loop of step 4.
IsDownloadLink(e) ==
    e.tag = "a" /\ \E term \in DownloadTerms : Contains(Lower(e.text), term)

\* download_link of step 4 after the link loop: the href of the first link
\* whose text has a download term, resolved against the confirmation page's
\* url; <<>> (None) when there is no such link or it has no href.
DownloadLink(confirm_response) ==
    LET k == Find(confirm_response.page, IsDownloadLink) IN
    IF k = 0 THEN <<>>
    ELSE LET href == confirm_response.page[k].href IN
         IF href # <<>> /\ ~StartsWithHttp(href)
         THEN UrlJoin(confirm_response.url, href)
         ELSE href

\* An extension read from the content-type as sent, not lower-cased.
Ext_CaseSensitive(content_type) ==
    IF Contains(content_type, <<"pdf">>) THEN ".pdf"
    ELSE IF Contains(content_type, <<"epub">>) THEN ".epub"
    ELSE ".bin"

\* ext of download_book, from the content-type header.
Ext(content_type) ==
    IF Contains(Lower(content_type), <<"pdf">>) THEN ".pdf"
    ELSE IF Contains(Lower(content_type), <<"epub">>) THEN ".epub"
    ELSE ".bin"

ExtTokens == {".pdf", ".PDF", ".epub", ".bin", ".txt"}
DirTokens == {"out/"}

\* os.path.splitext(path)[0]
SplitextRoot(path) ==
    IF /\ Len(path) >= 2
       /\ path[Len(path)] \in ExtTokens
       /\ path[Len(path) - 1] \notin DirTokens
    THEN SubSeq(path, 1, Len(path) - 1)
    ELSE path

\* A final path that appends the extension to whatever it is given.
FinalPath_AlwaysAppends(output_path, ext) == output_path \o <<ext>>

\* output_path of download_book once the extension is settled.
FinalPath(output_path, ext) ==
    IF output_path # <<>> /\ LowerTok(output_path[Len(output_path)]) = ext
    THEN output_path
    ELSE SplitextRoot(output_path) \o <<ext>>

\* os.path.dirname(path)
Dirname(path) ==
    LET I == { i \in 1..Len(path) : path[i] \in DirTokens } IN
    IF I = {} THEN <<>>
    ELSE SubSeq(path, 1, CHOOSE i \in I : \A j \in I : j <= i)

\* A result dict of download_book.
DownloadFailed(message) ==
    [success |-> FALSE, message |-> message, file_path |-> <<>>, format |-> ""]

\* ext[1:].upper()
FormatTag(ext) ==
    CASE ext = ".pdf" -> "PDF" [] ext = ".epub" -> "EPUB" [] OTHER -> "BIN"

DownloadSucceeded(path, ext) ==
    [success |-> TRUE, message |-> <<>>, file_path |-> path, format |-> FormatTag(ext)]

\* Except clauses without the one for requests.Timeout: every exception
\* gives its own text.
DownloadExcept_NoTimeoutClause(exc) == DownloadFailed(ExcStr(exc))

\* The two except clauses of download_book.
DownloadExcept(exc) ==
    IF exc = "Timeout" THEN DownloadFailed(<<"Download timed out">>)
    ELSE DownloadFailed(ExcStr(exc))

\* The locals of download_book that outlive a request, what the call has
\* done to the disk, and the payloads it has sent (sent, one per submission).
NoDownload ==
    [path |-> <<>>, ext |-> "", total_length |-> 0,
     downloaded |-> 0, chunks |-> 0, calls |-> 0, last |-> <<0, 0>>,
     made_dirs |-> FALSE, file |-> "none", sent |-> <<>>]

\* The download URL the caller got from search_book.
DownloadUrl == ViewUrl("101") \o <<"&download=true">>

\* The calls of download_book: book_id, output_path, and whether a progress
\* callback is passed.
DownloadCall(book_id, output_path, callback) ==
    [book_id |-> book_id, output_path |-> output_path, callback |-> callback]

DownloadCalls ==
    { DownloadCall("101", <<"out/", "Dune", ".PDF">>, TRUE),
      DownloadCall("", <<"out/", "Dune">>, TRUE),
      DownloadCall("101", <<"Dune", ".epub">>, TRUE),
      DownloadCall("", <<"out/", "Dune", ".epub">>, FALSE) }

FormatSelect ==
    Field("select", "format", "absent",
          <<Option("epub", <<"EPUB">>), Option("pdf", <<"PDF">>)>>)
\* A select whose PDF option is told by its text only.
FormatSelectPdfByText ==
    Field("select", "format", "absent",
          <<Option("1", <<"EPUB">>), Option("2", <<"Adobe", " ", "PDF">>)>>)
FormatSelectNoPdf ==
    Field("select", "format", "absent",
          <<Option("epub", <<"EPUB">>), Option("mobi", <<"Kindle">>)>>)

\* Elements of the download page (step 1).
DownloadPageElems ==
    { FormElement("downloadForm", "", <<"/lib/", "ridley", "/download.action">>, "POST",
                  <<Field("input", "docID", "101", <<>>), FormatSelect>>),
      FormElement("", "downloadForm", <<>>, "absent", <<FormatSelectNoPdf>>),
      FormElement("downloadForm", "", <<"https://", "ebookcentral.proquest.com", "/dl">>,
                  "get", <<Field("input", "format", "epub", <<>>)>>),
      FormElement("searchForm", "search", <<"/search">>, "get",
                  <<Field("input", "query", "absent", <<>>)>>),
      FormElement("downloadForm", "", <<>>, "post",
                  <<FormatSelectPdfByText, Field("input", "docID", "102", <<>>)>>) }

\* Elements of the confirmation page (step 3's answer).
ConfirmPageElems ==
    { Element("a", "", <<>>, <<"/lib/", "ridley", "/file.pdf">>, <<"Download", " ", "PDF">>),
      Element("a", "", <<>>, <<>>, <<"Get", " ", "Book">>),
      Element("a", "", <<>>, <<"/help">>, <<"Help">>),
      FormElement("downloadForm", "", <<"/lib/", "ridley", "/get.action">>, "absent",
                  <<Field("input", "token", "t1", <<>>), FormatSelect>>),
      FormElement("", "downloadForm", <<>>, "get", <<>>) }

\* What an error page can still carry: a download form on a refused
\* download page, a download link on a failed confirmation.
DeniedForm ==
    FormElement("downloadForm", "", <<"/lib/", "ridley", "/download.action">>, "POST",
                <<Field("input", "docID", "101", <<>>)>>)

ErrorPageLink ==
    Element("a", "", <<>>, <<"/lib/", "ridley", "/file.pdf">>, <<"Download", " ", "PDF">>)

confirm_url == base_url \o <<"/lib/", "ridley", "/download.action">>

DownloadPageResponses ==
    { Resp(200, DownloadUrl, <<>>, p) : p \in Pages(DownloadPageElems) }
    \cup { Resp(403, DownloadUrl, <<>>, p) : p \in {<<>>, <<DeniedForm>>} }
    \cup { Raise(e) : e \in Exceptions }

ConfirmResponses ==
    { Resp(200, confirm_url, <<>>, p) : p \in Pages(ConfirmPageElems) }
    \cup { Resp(500, confirm_url, <<>>, p) : p \in {<<>>, <<ErrorPageLink>>} }
    \cup { Raise(e) : e \in Exceptions }

ContentTypes ==
    { <<"application/", "PDF">>, <<"application/", "epub", "+zip">>,
      <<"text/", "html">> }

\* Declared content-length values (0: no header).
ContentLengths == {0, 3}

FileResponses ==
    { FileResp(200, ct, n) : ct \in ContentTypes, n \in ContentLengths }
    \cup { FileResp(404, <<"text/", "html">>, 0) }
    \cup { Raise(e) : e \in Exceptions }

\* The largest number of chunks of a body, and the largest chunk
\* (iter_content yields chunks of at most chunk_size bytes).
MaxChunks == 2
MaxChunkLen == 2

\* What can go wrong while the body is read: the read times out, the
\* connection breaks.
StreamExceptions == {"Timeout", "ConnectionError"}

\* ------------------------------------------------------------------ actions

\* The (username, password) pairs a caller stores: none, a username without
\* a password, both.
CredentialPairs ==
    { <<<<>>, <<>>>>, <<<<"s1234">>, <<>>>>, <<<<"s1234">>, <<"secret">>>> }

\* The arguments of a call; was_logged_in is self.is_logged_in as the call
\* found it.
NoArgs ==
    [title |-> <<>>, author |-> <<>>, download_url |-> <<>>, book_id |-> "",
     output_path |-> <<>>, callback |-> FALSE, was_logged_in |-> FALSE]

\* The application before any search: no book, no card, the search button
\* enabled and the download-all button disabled, no signal handled yet, and
\* the stored credentials.
NoApp ==
    [books |-> <<>>, cards |-> {}, search_btn |-> TRUE, download_all_btn |-> FALSE,
     handled |-> 0, username |-> <<"s1234">>, password |-> <<"secret">>]

CallArgs == [NoArgs EXCEPT !.was_logged_in = is_logged_in]

\* What the running call has handed to its caller: raise is the exception
\* that came out of it ("none" when none did), value the sequence of values
\* returned, empty until the call returns.
Returned(v) == [raise |-> "none", value |-> <<v>>]
Raised(exc) == [raise |-> exc, value |-> <<>>]
Pending == [raise |-> "none", value |-> <<>>]

\* _debug hands every message to self.debug_callback when there is one. Each
\* public method calls _debug before its first request, and every except
\* handler that would catch what the callback raises calls _debug again
\* before it returns: an exception of the callback comes out of the method.
DebugCallbacks == {"None", "returns", "raises"}
CallbackRaises == debug_callback = "raises"
CallbackError == "CallbackError"

Init ==
    /\ debug_callback = "None"
    /\ workers = <<>>
    /\ signals = <<>>
    /\ app = NoApp
    /\ username = <<>>
    /\ password = <<>>
    /\ is_logged_in = FALSE
    /\ op = "init"
    /\ pc = "idle"
    /\ args = NoArgs
    /\ resp = NoResp
    /\ trace = <<>>
    /\ login_success = "none"
    /\ dl = NoDownload
    /\ ret = Pending

\* The caller stores credentials on the client before an operation.
SetCredentials ==
    /\ pc = "idle"
    /\ \E c \in CredentialPairs :
          /\ username' = c[1]
          /\ password' = c[2]
    /\ op' = "set_credentials"
    /\ args' = NoArgs
    /\ resp' = NoResp
    /\ trace' = <<>>
    /\ login_success' = "none"
    /\ dl' = NoDownload
    /\ ret' = Pending
    /\ UNCHANGED <<outside, is_logged_in, pc>>

\* test_connection() is called: it clears the cookies and is about to GET
\* the home page.
CallTestConnection ==
    /\ pc = "idle"
    /\ op' = "test_connection"
    /\ args' = CallArgs
    /\ resp' = NoResp
    /\ login_success' = "none"
    /\ dl' = NoDownload
    /\ IF CallbackRaises
       THEN pc' = "return" /\ trace' = <<>> /\ ret' = Raised(CallbackError)
       ELSE pc' = "tc_home" /\ trace' = <<CookiesClear>> /\ ret' = Pending
    /\ UNCHANGED <<outside, username, password, is_logged_in>>

\* login() is called: it calls test_connection().
CallLogin ==
    /\ pc = "idle"
    /\ op' = "login"
    /\ args' = CallArgs
    /\ resp' = NoResp
    /\ login_success' = "none"
    /\ dl' = NoDownload
    /\ IF CallbackRaises
       THEN pc' = "return" /\ trace' = <<>> /\ ret' = Raised(CallbackError)
       ELSE pc' = "tc_home" /\ trace' = <<CookiesClear>> /\ ret' = Pending
    /\ UNCHANGED <<outside, username, password, is_logged_in>>

\* A login guard in search_book that goes on to search whatever login()
\* returned.
AfterTestConnection_SearchesAnyway(t) ==
    LET l == LoginReturn(t) IN
    CASE op = "test_connection" ->
            [pc |-> "return", login_success |-> "none",
             ret |-> IF t.next = "raise" THEN Raised(t.exc) ELSE Returned(t.result)]
      [] op = "login" ->
            [pc |-> "return", login_success |-> "none",
             ret |-> IF l.raise = "none" THEN Returned(l.value) ELSE Raised(l.raise)]
      [] op = "search_book" ->
            [pc |-> "search_home",
             login_success |-> IF l.value THEN "True" ELSE "False", ret |-> Pending]
      [] op = "download_book" ->
            IF l.value
            THEN [pc |-> "dl_page", login_success |-> "True", ret |-> Pending]
            ELSE [pc |-> "return", login_success |-> "False",
                  ret |-> Returned(DownloadFailed(<<"Login required">>))]

\* A login guard of download_book that goes on whatever login() returned.
AfterTestConnection_DownloadsAnyway(t) ==
    LET l == LoginReturn(t) IN
    CASE op = "test_connection" ->
            [pc |-> "return", login_success |-> "none",
             ret |-> IF t.next = "raise" THEN Raised(t.exc) ELSE Returned(t.result)]
      [] op = "login" ->
            [pc |-> "return", login_success |-> "none",
             ret |-> IF l.raise = "none" THEN Returned(l.value) ELSE Raised(l.raise)]
      [] op = "search_book" ->
            IF l.value
            THEN [pc |-> "search_home", login_success |-> "True", ret |-> Pending]
            ELSE [pc |-> "return", login_success |-> "False",
                  ret |-> Returned(SearchLoginRequired)]
      [] op = "download_book" ->
            [pc |-> "dl_page",
             login_success |-> IF l.value THEN "True" ELSE "False", ret |-> Pending]

\* Where the running call goes once test_connection has ended as t: the
\* return of test_connection() and login() themselves, and the login guard
\* of search_book and download_book.
AfterTestConnection(t) ==
    LET l == LoginReturn(t) IN
    CASE op = "test_connection" ->
            [pc |-> "return", login_success |-> "none",
             ret |-> IF t.next = "raise" THEN Raised(t.exc) ELSE Returned(t.result)]
      [] op = "login" ->
            [pc |-> "return", login_success |-> "none",
             ret |-> IF l.raise = "none" THEN Returned(l.value) ELSE Raised(l.raise)]
      [] op = "search_book" ->
            IF l.value
            THEN [pc |-> "search_home", login_success |-> "True", ret |-> Pending]
            ELSE [pc |-> "return", login_success |-> "False",
                  ret |-> Returned(SearchLoginRequired)]
      [] op = "download_book" ->
            IF l.value
            THEN [pc |-> "dl_page", login_success |-> "True", ret |-> Pending]
            ELSE [pc |-> "return", login_success |-> "False",
                  ret |-> Returned(DownloadFailed(<<"Login required">>))]

\* test_connection: the home-page GET and what follows it up to the POST.
GetHome ==
    /\ pc = "tc_home"
    /\ \E home_response \in HomeResponses :
        LET t == TCExcept(TCHomeBody(is_logged_in, home_response)) IN
        /\ resp' = home_response
        /\ trace' = Append(trace, Event("GET home", home_response))
        /\ is_logged_in' = t.logged
        /\ IF t.next = "post"
           THEN pc' = "tc_post" /\ ret' = ret /\ login_success' = login_success
           ELSE /\ pc' = AfterTestConnection(t).pc
                /\ ret' = AfterTestConnection(t).ret
                /\ login_success' = AfterTestConnection(t).login_success
    /\ UNCHANGED <<outside, username, password, op, args, dl>>

\* test_connection: the credential POST and the success heuristics.
PostLogin ==
    /\ pc = "tc_post"
    /\ \E login_response \in PostResponses :
        LET t == TCExcept(TCPostBody(is_logged_in, resp.status, login_response)) IN
        /\ resp' = login_response
        /\ trace' = Append(trace, Event("POST login", login_response))
        /\ is_logged_in' = t.logged
        /\ pc' = AfterTestConnection(t).pc
        /\ ret' = AfterTestConnection(t).ret
        /\ login_success' = AfterTestConnection(t).login_success
    /\ UNCHANGED <<outside, username, password, op, args, dl>>

\* search_book(title, author) is called: the login guard.
CallSearchBook ==
    /\ pc = "idle"
    /\ \E title \in Titles, author \in Authors :
          args' = [CallArgs EXCEPT !.title = title, !.author = author]
    /\ op' = "search_book"
    /\ resp' = NoResp
    /\ login_success' = "none"
    /\ dl' = NoDownload
    /\ IF CallbackRaises
       THEN pc' = "return" /\ trace' = <<>> /\ ret' = Raised(CallbackError)
       ELSE /\ ret' = Pending
            /\ IF NeedsLogin(username, password, is_logged_in)
               THEN pc' = "tc_home" /\ trace' = <<CookiesClear>>
               ELSE pc' = "search_home" /\ trace' = <<>>
    /\ UNCHANGED <<outside, username, password, is_logged_in>>

\* search_book: the home-page GET that establishes cookies.
SearchHomeGet ==
    /\ pc = "search_home"
    /\ \E home_response \in SearchHomeResponses :
        /\ resp' = home_response
        /\ trace' = Append(trace, Event("GET search home", home_response))
        /\ IF home_response.out # "ok"
           THEN /\ pc' = "return"
                /\ ret' = Returned(SearchExcept(args.title, AuthorLocal(args.author),
                                                home_response.out))
           ELSE pc' = "search_get" /\ ret' = ret
    /\ UNCHANGED <<outside, username, password, is_logged_in, op, args, login_success, dl>>

\* A first tier that ends the search as soon as a 200 answer has no book link.
AfterDirectSearch_StopsWhenEmpty(search_response, title, author) ==
    IF search_response.out # "ok" THEN
        [pc |-> "return",
         ret |-> Returned(SearchExcept(title, author, search_response.out))]
    ELSE IF DirectSearchFound(search_response) THEN
        [pc |-> "return",
         ret |-> Returned(DirectSearchResult(search_response.page, title, author))]
    ELSE IF search_response.status = 200 THEN
        [pc |-> "return",
         ret |-> Returned(SearchResult({"status", "title", "author", "message"},
                                       "Not Found", <<"No results found">>,
                                       title, author, <<>>, <<>>, ""))]
    ELSE
        [pc |-> "page_get", ret |-> Pending]

\* A first tier that reports a body it cannot read as result data.
AfterDirectSearch_ErrorWhenUnparsed(search_response, title, author) ==
    IF search_response.out # "ok" THEN
        [pc |-> "return",
         ret |-> Returned(SearchExcept(title, author, search_response.out))]
    ELSE IF DirectSearchFound(search_response) THEN
        [pc |-> "return",
         ret |-> Returned(DirectSearchResult(search_response.page, title, author))]
    ELSE IF search_response.status = 200 /\ search_response.body = Unparseable THEN
        [pc |-> "return",
         ret |-> Returned(SearchExcept(title, author, "ValueError"))]
    ELSE
        [pc |-> "page_get", ret |-> Pending]

\* A first tier whose result does not end the search.
AfterDirectSearch_AlwaysNextTier(search_response, title, author) ==
    IF search_response.out # "ok" THEN
        [pc |-> "return",
         ret |-> Returned(SearchExcept(title, author, search_response.out))]
    ELSE
        [pc |-> "page_get", ret |-> Pending]

\* Where search_book goes once the direct search request has been answered:
\* out through the except clause, back with the first book link's result,
\* or on to the results page.
AfterDirectSearch(search_response, title, author) ==
    IF search_response.out # "ok" THEN
        [pc |-> "return",
         ret |-> Returned(SearchExcept(title, author, search_response.out))]
    ELSE IF DirectSearchFound(search_response) THEN
        [pc |-> "return",
         ret |-> Returned(DirectSearchResult(search_response.page, title, author))]
    ELSE
        [pc |-> "page_get", ret |-> Pending]

\* search_book: the direct search request (first tier).
SearchGet ==
    /\ pc = "search_get"
    /\ \E search_response \in Tier1Responses :
        LET s == AfterDirectSearch(search_response, args.title,
                                   AuthorLocal(args.author)) IN
        /\ resp' = search_response
        /\ trace' = Append(trace, Event("GET search", search_response))
        /\ pc' = s.pc
        /\ ret' = s.ret
    /\ UNCHANGED <<outside, username, password, is_logged_in, op, args, login_success, dl>>

\* search_book: the results page (second tier), saved to search_page.html
\* and then searched for ids.
PageGet ==
    /\ pc = "page_get"
    /\ \E page_response \in Tier2Responses, fs \in FileOutcomes :
        /\ resp' = page_response
        /\ pc' = "return"
        /\ IF page_response.out # "ok" THEN
                /\ trace' = Append(trace, Event("GET page", page_response))
                /\ ret' = Returned(SearchExcept(args.title, AuthorLocal(args.author),
                                                page_response.out))
           ELSE IF page_response.status # 200 THEN
                /\ trace' = Append(trace, Event("GET page", page_response))
                /\ ret' = Returned(SearchPageFailed(page_response.status))
           ELSE
                /\ trace' = trace \o <<Event("GET page", page_response),
                                       [req |-> "write search_page.html", out |-> fs,
                                        status |-> 0]>>
                /\ ret' = IF fs # "ok"
                          THEN Returned(SearchExcept(args.title,
                                                     AuthorLocal(args.author), fs))
                          ELSE Returned(PageSearchResult(page_response.page, args.title,
                                                         AuthorLocal(args.author),
                                                         resp.status = 200))
    /\ UNCHANGED <<outside, username, password, is_logged_in, op, args, login_success, dl>>

\* download_book(download_url, book_id, output_path, callback) is called:
\* the login guard.
CallDownloadBook ==
    /\ pc = "idle"
    /\ \E c \in DownloadCalls :
          args' = [CallArgs EXCEPT !.download_url = DownloadUrl, !.book_id = c.book_id,
                                 !.output_path = c.output_path,
                                 !.callback = c.callback]
    /\ op' = "download_book"
    /\ resp' = NoResp
    /\ login_success' = "none"
    /\ dl' = NoDownload
    /\ IF CallbackRaises
       THEN pc' = "return" /\ trace' = <<>> /\ ret' = Raised(CallbackError)
       ELSE /\ ret' = Pending
            /\ IF NeedsLogin(username, password, is_logged_in)
               THEN pc' = "tc_home" /\ trace' = <<CookiesClear>>
               ELSE pc' = "dl_page" /\ trace' = <<>>
    /\ UNCHANGED <<outside, username, password, is_logged_in>>

\* A step 1 that does not look at the status of the download page.
DownloadPageGet_IgnoresStatus ==
    /\ pc = "dl_page"
    /\ \E download_page \in DownloadPageResponses :
        /\ resp' = download_page
        /\ trace' = Append(trace, Event("GET download page", download_page))
        /\ IF download_page.out # "ok" THEN
                pc' = "return" /\ ret' = Returned(DownloadExcept(download_page.out))
           ELSE IF FindDownloadForm(download_page.page) = 0 THEN
                /\ pc' = "return"
                /\ ret' = Returned(DownloadFailed(<<"Could not find download form">>))
           ELSE pc' = "dl_submit" /\ ret' = ret
    /\ UNCHANGED <<outside, username, password, is_logged_in, op, args, login_success, dl>>

\* download_book step 1 and the form lookup of step 2.
DownloadPageGet ==
    /\ pc = "dl_page"
    /\ \E download_page \in DownloadPageResponses :
        /\ resp' = download_page
        /\ trace' = Append(trace, Event("GET download page", download_page))
        /\ IF download_page.out # "ok" THEN
                pc' = "return" /\ ret' = Returned(DownloadExcept(download_page.out))
           ELSE IF download_page.status # 200 THEN
                /\ pc' = "return"
                /\ ret' = Returned(DownloadFailed(<<"Download page access failed: ",
                                                    ToString(download_page.status)>>))
           ELSE IF FindDownloadForm(download_page.page) = 0 THEN
                /\ pc' = "return"
                /\ ret' = Returned(DownloadFailed(<<"Could not find download form">>))
           ELSE pc' = "dl_submit" /\ ret' = ret
    /\ UNCHANGED <<outside, username, password, is_logged_in, op, args, login_success, dl>>

\* A step 3 that does not look at the status of the confirmation.
DownloadSubmit_IgnoresStatus ==
    /\ pc = "dl_submit"
    /\ LET form == resp.page[FindDownloadForm(resp.page)]
           form_action == FormAction(form, args.download_url)
           form_data == FormData(form, args.book_id)
           req == IF FormMethod(form) = "post" THEN "POST form" ELSE "GET form"
       IN \E confirm_response \in ConfirmResponses :
        /\ resp' = confirm_response
        /\ trace' = Append(trace, Event(req, confirm_response))
        /\ dl' = [dl EXCEPT !.sent = <<form_data>>]
        /\ IF confirm_response.out # "ok" THEN
                pc' = "return" /\ ret' = Returned(DownloadExcept(confirm_response.out))
           ELSE IF DownloadLink(confirm_response) # <<>> THEN
                pc' = "dl_fetch" /\ ret' = ret
           ELSE IF FindDownloadForm(confirm_response.page) = 0 THEN
                /\ pc' = "return"
                /\ ret' = Returned(DownloadFailed(<<"Could not find download link or form">>))
           ELSE IF confirm_response.page[FindDownloadForm(confirm_response.page)].action
                       = <<>> THEN
                /\ pc' = "return"
                /\ ret' = Returned(DownloadFailed(<<"Could not find download action">>))
           ELSE pc' = "dl_fetch" /\ ret' = ret
    /\ UNCHANGED <<outside, username, password, is_logged_in, op, args, login_success>>

\* download_book steps 2 and 3: the form is submitted, and the confirmation
\* page is searched for a link or a form.
DownloadSubmit ==
    /\ pc = "dl_submit"
    /\ LET form == resp.page[FindDownloadForm(resp.page)]
           form_action == FormAction(form, args.download_url)
           form_data == FormData(form, args.book_id)
           req == IF FormMethod(form) = "post" THEN "POST form" ELSE "GET form"
       IN \E confirm_response \in ConfirmResponses :
        /\ resp' = confirm_response
        /\ trace' = Append(trace, Event(req, confirm_response))
        /\ dl' = [dl EXCEPT !.sent = <<form_data>>]
        /\ IF confirm_response.out # "ok" THEN
                pc' = "return" /\ ret' = Returned(DownloadExcept(confirm_response.out))
           ELSE IF confirm_response.status # 200 THEN
                /\ pc' = "return"
                /\ ret' = Returned(DownloadFailed(<<"Download confirmation failed: ",
                                                    ToString(confirm_response.status)>>))
           ELSE IF DownloadLink(confirm_response) # <<>> THEN
                pc' = "dl_fetch" /\ ret' = ret
           ELSE IF FindDownloadForm(confirm_response.page) = 0 THEN
                /\ pc' = "return"
                /\ ret' = Returned(DownloadFailed(<<"Could not find download link or form">>))
           ELSE IF confirm_response.page[FindDownloadForm(confirm_response.page)].action
                       = <<>> THEN
                /\ pc' = "return"
                /\ ret' = Returned(DownloadFailed(<<"Could not find download action">>))
           ELSE pc' = "dl_fetch" /\ ret' = ret
    /\ UNCHANGED <<outside, username, password, is_logged_in, op, args, login_success>>

\* download_book step 4: the file request, then the extension, the output
\* path, the directory and the opening of the file.
DownloadFetch ==
    /\ pc = "dl_fetch"
    /\ LET link == DownloadLink(resp)
           form == resp.page[FindDownloadForm(resp.page)]
           req == IF link # <<>> THEN "GET file"
                  ELSE IF FormMethod(form) = "post" THEN "POST final form"
                  ELSE "GET final form"
           target == IF link # <<>> THEN link ELSE FormAction(form, resp.url)
           data == IF link # <<>> THEN <<>> ELSE FinalFormData(form)
       IN \E download_response \in FileResponses, fs \in FileOutcomes :
        LET ext == Ext(download_response.ctype)
            path == FinalPath(args.output_path, ext)
        IN
        /\ resp' = download_response
        /\ IF download_response.out # "ok" THEN
                /\ trace' = Append(trace, Event(req, download_response))
                /\ dl' = dl
                /\ pc' = "return"
                /\ ret' = Returned(DownloadExcept(download_response.out))
           ELSE IF download_response.status # 200 THEN
                /\ trace' = Append(trace, Event(req, download_response))
                /\ dl' = dl
                /\ pc' = "return"
                /\ ret' = Returned(DownloadFailed(<<"File download failed: ",
                                                    ToString(download_response.status)>>))
           ELSE IF Dirname(path) = <<>> THEN
                /\ trace' = trace \o <<Event(req, download_response),
                                       [req |-> "makedirs", out |-> "FileNotFoundError",
                                        status |-> 0]>>
                /\ dl' = [dl EXCEPT !.path = path, !.ext = ext]
                /\ pc' = "return"
                /\ ret' = Returned(DownloadExcept("FileNotFoundError"))
           ELSE
                /\ trace' = trace \o <<Event(req, download_response),
                                       [req |-> "makedirs", out |-> "ok", status |-> 0],
                                       [req |-> "open", out |-> fs, status |-> 0]>>
                /\ dl' = [dl EXCEPT !.path = path, !.ext = ext, !.made_dirs = TRUE,
                                      !.total_length = download_response.clen,
                                      !.file = IF fs = "ok" THEN "open" ELSE "none"]
                /\ IF fs # "ok"
                   THEN pc' = "return" /\ ret' = Returned(DownloadExcept(fs))
                   ELSE pc' = "dl_stream" /\ ret' = ret
    /\ UNCHANGED <<outside, username, password, is_logged_in, op, args, login_success>>

\* A loop that reports progress for empty chunks too.
DownloadChunk_ReportsEmptyChunks ==
    /\ pc = "dl_stream"
    /\ dl.chunks < MaxChunks
    /\ \E n \in 0..MaxChunkLen :
        LET downloaded == dl.downloaded + n
            report == args.callback /\ dl.total_length # 0
        IN dl' = [dl EXCEPT !.chunks = @ + 1,
                            !.downloaded = downloaded,
                            !.calls = IF report THEN @ + 1 ELSE @,
                            !.last = IF report THEN <<downloaded, dl.total_length>> ELSE @]
    /\ UNCHANGED <<outside, username, password, is_logged_in, op, pc, args, resp, trace,
                   login_success, ret>>

\* A loop that reports progress whether or not the total is known.
DownloadChunk_ReportsWithoutTotal ==
    /\ pc = "dl_stream"
    /\ dl.chunks < MaxChunks
    /\ \E n \in 0..MaxChunkLen :
        LET downloaded == dl.downloaded + n
            report == n > 0 /\ args.callback
        IN dl' = [dl EXCEPT !.chunks = @ + 1,
                            !.downloaded = downloaded,
                            !.calls = IF report THEN @ + 1 ELSE @,
                            !.last = IF report THEN <<downloaded, dl.total_length>> ELSE @]
    /\ UNCHANGED <<outside, username, password, is_logged_in, op, pc, args, resp, trace,
                   login_success, ret>>

\* A loop that reports the size of the chunk, not the bytes so far.
DownloadChunk_ReportsChunkSize ==
    /\ pc = "dl_stream"
    /\ dl.chunks < MaxChunks
    /\ \E n \in 0..MaxChunkLen :
        LET downloaded == dl.downloaded + n
            report == n > 0 /\ args.callback /\ dl.total_length # 0
        IN dl' = [dl EXCEPT !.chunks = @ + 1,
                            !.downloaded = downloaded,
                            !.calls = IF report THEN @ + 1 ELSE @,
                            !.last = IF report THEN <<n, dl.total_length>> ELSE @]
    /\ UNCHANGED <<outside, username, password, is_logged_in, op, pc, args, resp, trace,
                   login_success, ret>>

\* download_book: one round of the iter_content loop: a chunk of n bytes
\* arrives, is written when not empty, and progress is reported.
DownloadChunk ==
    /\ pc = "dl_stream"
    /\ dl.chunks < MaxChunks
    /\ \E n \in 0..MaxChunkLen :
        LET downloaded == dl.downloaded + n
            report == n > 0 /\ args.callback /\ dl.total_length # 0
        IN dl' = [dl EXCEPT !.chunks = @ + 1,
                            !.downloaded = downloaded,
                            !.calls = IF report THEN @ + 1 ELSE @,
                            !.last = IF report THEN <<downloaded, dl.total_length>> ELSE @]
    /\ UNCHANGED <<outside, username, password, is_logged_in, op, pc, args, resp, trace,
                   login_success, ret>>

\* download_book: the body has been read to its end; the file is closed and
\* success returned.
DownloadComplete ==
    /\ pc = "dl_stream"
    /\ pc' = "return"
    /\ dl' = [dl EXCEPT !.file = "closed"]
    /\ ret' = Returned(DownloadSucceeded(dl.path, dl.ext))
    /\ UNCHANGED <<outside, username, password, is_logged_in, op, args, resp, trace,
                   login_success>>

\* download_book: reading the body or writing the file raises mid-stream.
DownloadStreamFails ==
    /\ pc = "dl_stream"
    /\ \E exc \in StreamExceptions :
        /\ trace' = Append(trace, [req |-> "read chunk", out |-> exc, status |-> 0])
        /\ ret' = Returned(DownloadExcept(exc))
    /\ pc' = "return"
    /\ dl' = [dl EXCEPT !.file = "closed"]
    /\ UNCHANGED <<outside, username, password, is_logged_in, op, args, resp, login_success>>

\* The running call returns to its caller: its arguments and locals are gone,
\* its result is in the caller's hands.
Return ==
    /\ pc = "return"
    /\ pc' = "idle"
    /\ args' = NoArgs
    /\ resp' = NoResp
    /\ login_success' = "none"
    /\ dl' = NoDownload
    /\ UNCHANGED <<outside, username, password, is_logged_in, op, trace, ret>>

Next ==
    \/ SetCredentials
    \/ CallTestConnection
    \/ CallLogin
    \/ GetHome
    \/ PostLogin
    \/ CallSearchBook
    \/ SearchHomeGet
    \/ SearchGet
    \/ PageGet
    \/ CallDownloadBook
    \/ DownloadPageGet
    \/ DownloadSubmit
    \/ DownloadFetch
    \/ DownloadChunk
    \/ DownloadComplete
    \/ DownloadStreamFails
    \/ Return

Spec == Init /\ [][Next]_vars

\* The client as a library: constructed with any debug_callback.
InitDebug ==
    /\ debug_callback \in DebugCallbacks
    /\ workers = <<>>
    /\ signals = <<>>
    /\ app = NoApp
    /\ username = <<>>
    /\ password = <<>>
    /\ is_logged_in = FALSE
    /\ op = "init"
    /\ pc = "idle"
    /\ args = NoArgs
    /\ resp = NoResp
    /\ trace = <<>>
    /\ login_success = "none"
    /\ dl = NoDownload
    /\ ret = Pending

SpecDebug == InitDebug /\ [][Next]_vars

\* ------------------------------------------------------------------ workers

\* SearchWorker and DownloadWorker exist twice: in their own files
\* (SearchWorker.py, DownloadWorker.py: "module") and, shorter, inside
\* library_assistant.py ("app"), which is the pair the application runs.
\* A worker's search()/download() runs on a thread of its own; the portal
\* calls it makes are taken as single answers here: login() returns True or
\* False, search_book and download_book return a result, and any of them
\* raises what the portal's debug callback raises.

MaxBooks == 2       \* books handed to one worker
MaxProgress == 1    \* downloadProgress signals per book

WorkerKinds == {"search", "download"}
WorkerFiles == {"module", "app"}

\* A book as a worker is given it: its id (n stands for f"book_{n}") and, for
\* a download, book_info["download_url"].
Book(id, download_url) == [id |-> id, download_url |-> download_url]

RECURSIVE BookLists(_, _)
BookLists(n, urls) ==
    IF n = 0 THEN {<<>>}
    ELSE BookLists(n - 1, urls)
         \cup { Append(l, Book(n, u)) : l \in { m \in BookLists(n - 1, urls) : Len(m) = n - 1 },
                                        u \in urls }

\* The lists a worker can be constructed with.
WorkerBooks(kind) ==
    IF kind = "search" THEN BookLists(MaxBooks, {<<>>})
    ELSE BookLists(MaxBooks, {<<>>, DownloadUrl})

\* __init__ of either worker; at is where its thread stands, i the number of
\* books the loop has finished, login what its initial portal.login() gave.
NewWorker(kind, file, books, u, p) ==
    [kind |-> kind, file |-> file, books |-> books, username |-> u, password |-> p,
     cancel_flag |-> FALSE, at |-> "created", i |-> 0, login |-> "none",
     progress |-> 0, calls |-> <<>>]

\* A portal method called by a worker, for which book and with which URL.
PortalCall(method, book, url) == [method |-> method, book |-> book, url |-> url]

\* signal.emit(book_id, arg) by worker w.
Signal(w, sig, book, arg) == [worker |-> w, sig |-> sig, book |-> book, arg |-> arg]
LoginRequired(w) == Signal(w, "loginRequired", 0, <<>>)
Finished(w) == Signal(w, "finished", 0, <<>>)

\* The signals of one book, by the kind of worker.
Started(self) == IF self.kind = "search" THEN "searchStarted" ELSE "downloadStarted"
Failed(self) == IF self.kind = "search" THEN "searchError" ELSE "downloadError"

\* What search_book returns, as far as its callers look at it: the status
\* and the download URL.
SearchResults ==
    { [status |-> "Found", download_url |-> DownloadUrl],
      [status |-> "Found", download_url |-> <<>>],
      [status |-> "Not Found", download_url |-> <<>>] }

\* What download_book returns, as far as the worker looks at it.
DownloadResults == { [success |-> TRUE], [success |-> FALSE] }

\* What comes out of a portal call other than login(): the callback's
\* exception, or a result.
CallOutcomes(self) ==
    IF CallbackRaises THEN { [raise |-> CallbackError] }
    ELSE IF self.kind = "search"
    THEN { [raise |-> "none", result |-> r] : r \in SearchResults }
    ELSE { [raise |-> "none", result |-> r] : r \in DownloadResults }

\* What comes out of portal.login().
LoginOutcomes ==
    IF CallbackRaises THEN {CallbackError} ELSE {"True", "False"}

\* The condition of both workers' first branch: credentials provided and the
\* portal not logged in.
WorkerNeedsLogin(self) ==
    Truthy(self.username) /\ Truthy(self.password) /\ ~is_logged_in

\* SearchWorker.py alone: an empty book list only verifies the login.
OnlyVerifiesLogin(self) ==
    self.file = "module" /\ self.kind = "search" /\ self.books = <<>>

\* The module workers alone: without a username or a password they stop.
StopsWithoutCredentials(self) ==
    self.file = "module" /\ ~(Truthy(self.username) /\ Truthy(self.password))

\* What the thread does once the login branch is behind it: the end of the
\* login check of an empty list, or the way into the loop (for a download,
\* through os.makedirs(output_folder), which may raise).
AfterLoginBranch(w, self, makedirs) ==
    IF OnlyVerifiesLogin(self) THEN
        [at |-> "finally", emits |-> <<Finished(w)>>]
    ELSE IF self.kind = "download" /\ makedirs # "ok" THEN
        [at |-> "finally", emits |-> <<>>]
    ELSE
        [at |-> "loop", emits |-> <<>>]

MakedirsOutcomes == {"ok", "OSError"}

\* The steps of a worker leave the running portal call, the callback and the
\* application alone.
portal_call == <<op, pc, args, resp, trace, login_success, dl, ret>>

\* search()/download() begins: the credentials go to the portal, then the
\* login branch.
WorkerStart(w) ==
    LET self == workers[w] IN
    /\ self.at = "created"
    /\ username' = self.username
    /\ password' = self.password
    /\ IF WorkerNeedsLogin(self) THEN
            /\ workers' = [workers EXCEPT ![w].at = "login",
                                          ![w].calls = Append(@, PortalCall("login", 0, <<>>))]
            /\ signals' = signals
       ELSE IF ~OnlyVerifiesLogin(self) /\ StopsWithoutCredentials(self) THEN
            /\ workers' = [workers EXCEPT ![w].at = "finally"]
            /\ signals' = signals \o <<LoginRequired(w), Finished(w)>>
       ELSE \E makedirs \in MakedirsOutcomes :
            LET next == AfterLoginBranch(w, self, makedirs) IN
            /\ workers' = [workers EXCEPT ![w].at = next.at]
            /\ signals' = signals \o next.emits
    /\ UNCHANGED <<debug_callback, is_logged_in, portal_call, app>>

\* A worker that goes on to its books after a failed login.
AfterLogin_GoesOn(w, self, success, makedirs) ==
    IF success = CallbackError THEN [at |-> "finally", emits |-> <<>>]
    ELSE IF success = "False" THEN [at |-> "loop", emits |-> <<LoginRequired(w)>>]
    ELSE AfterLoginBranch(w, self, makedirs)

\* What follows portal.login(): an exception goes to the outer handler; on
\* False the worker emits loginRequired and finished and returns (through
\* the finally clause); on True it goes on.
AfterLogin(w, self, success, makedirs) ==
    IF success = CallbackError THEN [at |-> "finally", emits |-> <<>>]
    ELSE IF success = "False" THEN
        [at |-> "finally", emits |-> <<LoginRequired(w), Finished(w)>>]
    ELSE AfterLoginBranch(w, self, makedirs)

\* The initial portal.login() of a worker returns (or raises).
WorkerLoginReturns(w) ==
    LET self == workers[w] IN
    /\ self.at = "login"
    /\ \E success \in LoginOutcomes, makedirs \in MakedirsOutcomes,
          left \in {FALSE, is_logged_in} :
        LET next == AfterLogin(w, self, success, makedirs) IN
        /\ is_logged_in' = IF success = "True" THEN TRUE
                           ELSE IF success = "False" THEN left ELSE is_logged_in
        /\ workers' = [workers EXCEPT ![w].at = next.at, ![w].login = success]
        /\ signals' = signals \o next.emits
    /\ UNCHANGED <<debug_callback, username, password, portal_call, app>>

\* A loop that does not look at the cancel flag.
LoopEnds_IgnoresCancel(self) == self.i = Len(self.books)

\* The for loop is over: the list is exhausted, or the cancel flag is set
\* when the loop comes round.
LoopEnds(self) == self.i = Len(self.books) \/ self.cancel_flag

\* A download worker that hands every book to the portal.
CallsPortal_AnyUrl(self, book) == TRUE

\* The worker hands the book to the portal: a search always, a download when
\* book_info has a download URL (otherwise it raises ValueError itself).
CallsPortal(self, book) == self.kind = "search" \/ Truthy(book.download_url)

\* The top of the loop: out on cancel or at the end of the list; otherwise
\* the Started signal of the next book and the portal call for it.
WorkerNextBook(w) ==
    LET self == workers[w] IN
    /\ self.at = "loop"
    /\ IF LoopEnds(self) THEN
            /\ workers' = [workers EXCEPT ![w].at = "finally"]
            /\ signals' = signals
       ELSE LET book == self.books[self.i + 1] IN
            IF CallsPortal(self, book) THEN
                /\ workers' =
                      [workers EXCEPT
                          ![w].at = "call", ![w].progress = 0,
                          ![w].calls = Append(@, PortalCall(IF self.kind = "search"
                                                            THEN "search_book"
                                                            ELSE "download_book",
                                                            book.id, book.download_url))]
                /\ signals' = Append(signals, Signal(w, Started(self), book.id, <<>>))
            ELSE
                /\ workers' = [workers EXCEPT ![w].i = @ + 1]
                /\ signals' = signals \o
                      <<Signal(w, Started(self), book.id, <<>>),
                        Signal(w, Failed(self), book.id, "No download URL available")>>
    /\ UNCHANGED <<debug_callback, username, password, is_logged_in, portal_call, app>>

\* _handle_progress, called by download_book while it streams: a
\* downloadProgress signal unless the worker has been cancelled.
WorkerProgress(w) ==
    LET self == workers[w] IN
    /\ self.kind = "download"
    /\ self.at = "call"
    /\ ~CallbackRaises
    /\ self.progress < MaxProgress
    /\ workers' = [workers EXCEPT ![w].progress = @ + 1]
    /\ signals' = IF self.cancel_flag THEN signals
                  ELSE Append(signals,
                              Signal(w, "downloadProgress", self.books[self.i + 1].id, <<>>))
    /\ UNCHANGED <<debug_callback, username, password, is_logged_in, portal_call, app>>

\* A worker that reports nothing for a call that raised.
Terminal_SilentOnException(w, self, outcome) ==
    LET book == self.books[self.i + 1].id IN
    IF outcome.raise # "none" THEN <<>>
    ELSE IF self.kind = "search" THEN <<Signal(w, "searchResult", book, outcome.result)>>
    ELSE IF outcome.result.success THEN <<Signal(w, "downloadComplete", book, "file_path")>>
    ELSE <<Signal(w, "downloadError", book, "message")>>

\* The signal that ends a book, from what the portal call gave.
Terminal(w, self, outcome) ==
    LET book == self.books[self.i + 1].id IN
    IF outcome.raise # "none" THEN <<Signal(w, Failed(self), book, outcome.raise)>>
    ELSE IF self.kind = "search" THEN <<Signal(w, "searchResult", book, outcome.result)>>
    ELSE IF outcome.result.success THEN <<Signal(w, "downloadComplete", book, "file_path")>>
    ELSE <<Signal(w, "downloadError", book, "message")>>

\* portal.search_book / portal.download_book returns (or raises) and the
\* worker emits the book's last signal. The call logs in by itself when the
\* portal has credentials and is not logged in.
WorkerCallReturns(w) ==
    LET self == workers[w] IN
    /\ self.at = "call"
    /\ \E outcome \in CallOutcomes(self),
          logged \in IF NeedsLogin(username, password, is_logged_in) /\ ~CallbackRaises
                     THEN BOOLEAN ELSE {is_logged_in} :
        /\ is_logged_in' = logged
        /\ workers' = [workers EXCEPT ![w].at = "loop", ![w].i = @ + 1]
        /\ signals' = signals \o Terminal(w, self, outcome)
    /\ UNCHANGED <<debug_callback, username, password, portal_call, app>>

\* The finally clause: finished is emitted and the method ends.
WorkerFinally(w) ==
    /\ workers[w].at = "finally"
    /\ workers' = [workers EXCEPT ![w].at = "done"]
    /\ signals' = Append(signals, Finished(w))
    /\ UNCHANGED <<debug_callback, username, password, is_logged_in, portal_call, app>>

\* cancel(), called from another thread at any time.
Cancel(w) ==
    /\ ~workers[w].cancel_flag
    /\ workers[w].at # "done"
    /\ workers' = [workers EXCEPT ![w].cancel_flag = TRUE]
    /\ UNCHANGED <<debug_callback, username, password, is_logged_in, portal_call, signals, app>>

\* One worker of either kind, from either file, with any book list and
\* credentials, given a portal that is logged in or not and has a debug
\* callback or not.
WorkerInit ==
    /\ debug_callback \in {"None", "raises"}
    /\ username = <<>>
    /\ password = <<>>
    /\ is_logged_in \in BOOLEAN
    /\ op = "init"
    /\ pc = "idle"
    /\ args = NoArgs
    /\ resp = NoResp
    /\ trace = <<>>
    /\ login_success = "none"
    /\ dl = NoDownload
    /\ ret = Pending
    /\ \E kind \in WorkerKinds, file \in WorkerFiles, c \in CredentialPairs :
       \E books \in WorkerBooks(kind) :
          workers = <<NewWorker(kind, file, books, c[1], c[2])>>
    /\ signals = <<>>
    /\ app = NoApp

WorkerNext ==
    \/ \E w \in DOMAIN workers : WorkerStart(w)
    \/ \E w \in DOMAIN workers : WorkerLoginReturns(w)
    \/ \E w \in DOMAIN workers : WorkerNextBook(w)
    \/ \E w \in DOMAIN workers : WorkerProgress(w)
    \/ \E w \in DOMAIN workers : WorkerCallReturns(w)
    \/ \E w \in DOMAIN workers : WorkerFinally(w)
    \/ \E w \in DOMAIN workers : Cancel(w)

WorkerSpec == WorkerInit /\ [][WorkerNext]_vars

\* ------------------------------------------------------------------ application

\* LibraryAssistantApp: one EbookCentralPortal for the whole application,
\* self.books keyed by book id (book n is f"book_{n}", ids are handed out in
\* order and never reused), the cards shown in the results list, the two
\* buttons. Its handlers run one at a time on the main thread; every worker
\* runs on a thread of its own and its signals reach the handlers in the
\* order of emission.

MaxWorkers == 3     \* worker threads started in one run of the application
MaxBookIds == 2     \* book ids handed out in one run of the application

\* book.get("status") == "Found" and book.get("download_url")
Downloadable(book) == book.status = "Found" /\ Truthy(book.download_url)

\* The ids of the downloadable books of self.books, in the order of the dict.
DownloadableIds ==
    LET Ok(n) == Downloadable(app.books[n])
    IN SelectSeq([n \in 1..Len(app.books) |-> n], Ok)

\* start_download: the download-all button is disabled and a DownloadWorker
\* for these books is put on a new thread, with the shared portal.
StartDownload(ids) ==
    /\ app' = [app EXCEPT !.download_all_btn = FALSE]
    /\ workers' = Append(workers,
                         NewWorker("download", "app",
                                   [k \in 1..Len(ids) |->
                                       Book(ids[k], app.books[ids[k]].download_url)],
                                   app.username, app.password))

\* The search button is clicked with n parsable lines in the input: the
\* books get their ids and enter self.books, the old cards are removed and
\* the new ones shown, and a SearchWorker is put on a new thread.
StartSearch ==
    /\ app.search_btn
    /\ Len(workers) < MaxWorkers
    /\ \E n \in 1..MaxBooks :
        LET first == Len(app.books) IN
        /\ first + n <= MaxBookIds
        /\ app' = [app EXCEPT
                      !.books = @ \o [k \in 1..n |->
                                         [status |-> "Waiting", download_url |-> <<>>]],
                      !.cards = (first + 1)..(first + n),
                      !.download_all_btn = FALSE,
                      !.search_btn = FALSE]
        /\ workers' = Append(workers,
                             NewWorker("search", "app",
                                       [k \in 1..n |-> Book(first + k, <<>>)],
                                       app.username, app.password))
    /\ UNCHANGED <<debug_callback, username, password, is_logged_in, portal_call, signals>>

\* The Download button of a card is clicked (it is enabled while the card
\* has a download URL): download_book(url) looks the URL up in self.books
\* and starts a download of the first book that has it.
ClickDownload ==
    /\ Len(workers) < MaxWorkers
    /\ \E card \in app.cards :
        LET url == app.books[card].download_url
            with_url == { b \in DOMAIN app.books : app.books[b].download_url = url }
            book_id == CHOOSE b \in with_url : \A c \in with_url : b <= c
        IN /\ Truthy(url)
           /\ StartDownload(<<book_id>>)
    /\ UNCHANGED <<debug_callback, username, password, is_logged_in, portal_call, signals>>

\* The download-all button is clicked: every book of self.books that is
\* Found and has a download URL goes to one DownloadWorker.
DownloadAll ==
    /\ app.download_all_btn
    /\ Len(workers) < MaxWorkers
    /\ DownloadableIds # <<>>
    /\ StartDownload(DownloadableIds)
    /\ UNCHANGED <<debug_callback, username, password, is_logged_in, portal_call, signals>>

\* The search worker on_login_required cancels: the one created last, while
\* its thread runs.
RunningSearchWorker ==
    LET S == { w \in DOMAIN workers : workers[w].kind = "search" } IN
    IF S = {} THEN {}
    ELSE LET w == CHOOSE x \in S : \A y \in S : y <= x
         IN IF workers[w].at # "done" THEN {w} ELSE {}

\* The main thread handles the next signal: on_search_started,
\* on_search_result, on_search_error, on_login_required, on_search_finished,
\* on_download_started, on_download_progress, on_download_complete,
\* on_download_error or on_download_finished.
HandleSignal ==
    /\ app.handled < Len(signals)
    /\ LET s == signals[app.handled + 1]
           kind == workers[s.worker].kind
           books ==
              CASE s.sig = "searchStarted" -> [app.books EXCEPT ![s.book].status = "Searching"]
                [] s.sig = "searchResult" ->
                      [app.books EXCEPT
                          ![s.book].status = s.arg.status,
                          ![s.book].download_url = IF s.arg.status = "Found"
                                                   THEN s.arg.download_url ELSE @]
                [] s.sig \in {"searchError", "downloadError"} ->
                      [app.books EXCEPT ![s.book].status = "Error"]
                [] s.sig = "downloadStarted" ->
                      [app.books EXCEPT ![s.book].status = "Downloading"]
                [] s.sig = "downloadComplete" ->
                      [app.books EXCEPT ![s.book].status = "Downloaded"]
                [] OTHER -> app.books
           download_all_btn ==
              IF s.sig = "searchResult" /\ Downloadable(books[s.book]) THEN TRUE
              ELSE IF s.sig = "finished" /\ kind = "download"
              THEN \E n \in DOMAIN books : Downloadable(books[n])
              ELSE app.download_all_btn
           search_btn ==
              IF s.sig = "loginRequired" \/ (s.sig = "finished" /\ kind = "search")
              THEN TRUE ELSE app.search_btn
       IN /\ app' = [app EXCEPT !.books = books, !.download_all_btn = download_all_btn,
                                !.search_btn = search_btn, !.handled = @ + 1]
          /\ workers' = IF s.sig = "loginRequired"
                        THEN [w \in DOMAIN workers |->
                                 IF w \in RunningSearchWorker
                                 THEN [workers[w] EXCEPT !.cancel_flag = TRUE]
                                 ELSE workers[w]]
                        ELSE workers
    /\ UNCHANGED <<debug_callback, username, password, is_logged_in, portal_call, signals>>

\* The application after its window is built: the stored credentials are in
\* the portal, which was constructed without a debug callback.
AppInit ==
    /\ debug_callback = "None"
    /\ username = NoApp.username
    /\ password = NoApp.password
    /\ is_logged_in = FALSE
    /\ op = "init"
    /\ pc = "idle"
    /\ args = NoArgs
    /\ resp = NoResp
    /\ trace = <<>>
    /\ login_success = "none"
    /\ dl = NoDownload
    /\ ret = Pending
    /\ workers = <<>>
    /\ signals = <<>>
    /\ app = NoApp

AppNext ==
    \/ StartSearch
    \/ ClickDownload
    \/ DownloadAll
    \/ HandleSignal
    \/ \E w \in DOMAIN workers : WorkerStart(w)
    \/ \E w \in DOMAIN workers : WorkerLoginReturns(w)
    \/ \E w \in DOMAIN workers : WorkerNextBook(w)
    \/ \E w \in DOMAIN workers : WorkerCallReturns(w)
    \/ \E w \in DOMAIN workers : WorkerFinally(w)

AppSpec == AppInit /\ [][AppNext]_vars

\* ------------------------------------------------------------- properties

\* What the running (or last) call has asked of the session and the disk.
Requested(req) == \E i \in DOMAIN trace : trace[i].req = req
Count(req) == Cardinality({ i \in DOMAIN trace : trace[i].req = req })
Last == IF trace = <<>> THEN [req |-> "none", out |-> "ok", status |-> 0]
        ELSE trace[Len(trace)]

LoginRequests == {"cookies.clear", "GET home", "POST login"}
SearchRequests == {"GET search home", "GET search", "GET page"}

\* A call of search_book or download_book is under way or about to return.
InSearch == op = "search_book" /\ pc # "idle"
InDownload == op = "download_book" /\ pc # "idle"
LoginReturned == op = "login" /\ pc = "return"

\* The value the call returned.
Result == ret.value[1]

\* C1: search_book called with a non-empty username and password while
\* is_logged_in is false calls login() before anything else; search requests
\* are issued only after login() returned true, and when login() returned
\* false the call returns status "Error" with message "Login required"
\* without having issued the home GET, the search GET or the results-page GET.
C1_LoginRequiredBeforeSearch ==
    (InSearch /\ Truthy(username) /\ Truthy(password) /\ ~args.was_logged_in)
        => /\ trace # <<>>
           /\ trace[1].req = "cookies.clear"
           /\ (\E r \in SearchRequests : Requested(r)) => login_success = "True"
           /\ login_success = "False"
                => /\ pc = "return"
                   /\ ret.raise = "none"
                   /\ Result.status = "Error"
                   /\ Result.message = <<"Login required">>
                   /\ \A r \in SearchRequests : ~Requested(r)

C1_Witness ==
    /\ InSearch
    /\ pc = "return"
    /\ login_success = "False"
    /\ Requested("POST login")
    /\ Result.message = <<"Login required">>

\* C2: when is_logged_in is already true as search_book or download_book is
\* called, the call never invokes login(): no cookie clear, no home-page
\* probe and no credential POST, whatever operations came before.
C2_NoLoginWhenLoggedIn ==
    ((InSearch \/ InDownload) /\ args.was_logged_in)
        => /\ \A r \in LoginRequests : ~Requested(r)
           /\ pc \notin {"tc_home", "tc_post"}
           /\ login_success = "none"

C2_Witness ==
    /\ InSearch
    /\ pc = "return"
    /\ args.was_logged_in
    /\ Truthy(username)
    /\ Truthy(password)
    /\ Requested("GET search")

\* C3 as the specification states it: once is_logged_in is true no step of
\* login(), test_connection(), search_book() or download_book() sets it back
\* to false, and a login() that returns false leaves it as the call found it.
C3_NeverReset ==
    [][/\ is_logged_in => is_logged_in'
       /\ (op = "login" /\ pc # "return" /\ pc' = "return" /\ ret'.value[1] = FALSE)
            => is_logged_in' = args.was_logged_in]_vars

\* C3 as the code has it: is_logged_in goes from true to false only in a
\* login() or test_connection() called directly, at the step where the
\* credential POST has been answered and matches no success indicator, the
\* call then returning failure; search_book, download_book and a call that
\* ends in an exception leave a true flag true.
C3_ResetOnlyByFailedCredentialPost ==
    [][(is_logged_in /\ ~is_logged_in')
          => /\ op \in {"login", "test_connection"}
             /\ pc = "tc_post"
             /\ pc' = "return"
             /\ resp'.out = "ok"
             /\ op = "login" => ret'.value[1] = FALSE
             /\ op = "test_connection" => ~ret'.value[1].success]_vars

C3_Witness ==
    /\ LoginReturned
    /\ args.was_logged_in
    /\ ~is_logged_in
    /\ Result = FALSE

\* C4: login() never lets an exception out: it returns a boolean, and the
\* boolean is false whenever one of its requests failed at network level.
C4_LoginReturnsBoolean ==
    LoginReturned
        => /\ ret.raise = "none"
           /\ Len(ret.value) = 1
           /\ Result \in BOOLEAN
           /\ (\E i \in DOMAIN trace : trace[i].out # "ok") => Result = FALSE

C4_Witness ==
    /\ LoginReturned
    /\ Last.req = "POST login"
    /\ Last.out = "ConnectionError"
    /\ Result = FALSE

\* C5: after every call of login(), is_logged_in equals the boolean that
\* login() returned, the timeout and connection-error paths included.
C5_FlagEqualsReturnValue ==
    LoginReturned => is_logged_in = Result

\* C6: every login() clears the session cookies before any request and then
\* GETs the home page; when that answer carries both signed-in markers,
\* login() returns true with is_logged_in true and the credential POST is
\* not issued.
C6_DirectAccess ==
    /\ pc = "tc_home" => trace = <<CookiesClear>>
    /\ \A i \in DOMAIN trace :
          /\ trace[i].req = "cookies.clear" => i = 1
          /\ trace[i].req = "GET home" => i = 2 /\ trace[1].req = "cookies.clear"
          /\ trace[i].req = "POST login" => i = 3 /\ trace[2].req = "GET home"
    /\ (/\ Last.req = "GET home"
        /\ resp.out = "ok"
        /\ Contains(resp.body, <<"Ebook", "Central">>)
        /\ Contains(resp.body, <<"Bookshelf">>))
          => /\ is_logged_in
             /\ pc # "tc_post"
             /\ op = "login" => pc = "return" /\ ret = Returned(TRUE)
             /\ op \in {"search_book", "download_book"} => login_success = "True"

C6_Witness ==
    /\ LoginReturned
    /\ Last.req = "GET home"
    /\ resp.out = "ok"
    /\ Contains(resp.body, <<"Bookshelf">>)
    /\ ~args.was_logged_in
    /\ is_logged_in
    /\ Result = TRUE

\* The three conditions the specification names for the answer to the
\* credential POST, and the two more the code accepts.
CatalogHomeInUrl ==
    Contains(resp.url, <<"ebookcentral.proquest.com", "/lib/", "ridley", "/home.action">>)
AuthSuccessInBody == Contains(resp.body, <<"Authentication", "successful">>)
PostLoginPageInBody == Contains(resp.body, <<"My", "Bookshelf">>)
EbcPathInUrl == Contains(resp.url, <<"/ebc/">>)
ProductAndShelfInBody ==
    /\ Contains(resp.body, <<"ProQuest", "Ebook", "Central">>)
    /\ Contains(resp.body, <<"Bookshelf">>)

\* C7 as the specification states it: after the credential POST login()
\* returns true exactly when the final URL contains the catalog home path,
\* or the body contains the authentication-success marker, or the body
\* contains the post-login page marker.
C7_ThreeIndicators ==
    (LoginReturned /\ Last.req = "POST login")
        => (Result = TRUE
              <=> (CatalogHomeInUrl \/ AuthSuccessInBody \/ PostLoginPageInBody))

\* C7 as the code has it: the credential POST is issued once, and login()
\* returns true exactly when one of five conditions holds: the three above,
\* or the final URL contains "/ebc/", or the body contains both
\* "ProQuest Ebook Central" and "Bookshelf".
C7_FiveIndicators ==
    (LoginReturned /\ Last.req = "POST login")
        => /\ Count("POST login") = 1
           /\ Result = TRUE
                <=> \/ CatalogHomeInUrl
                    \/ AuthSuccessInBody
                    \/ PostLoginPageInBody
                    \/ EbcPathInUrl
                    \/ ProductAndShelfInBody

C7_Witness ==
    /\ LoginReturned
    /\ Last.req = "POST login"
    /\ EbcPathInUrl
    /\ ~(CatalogHomeInUrl \/ AuthSuccessInBody \/ PostLoginPageInBody)
    /\ Result = TRUE

\* The direct search request has just been answered 200 with no book link.
EmptyDirectAnswer ==
    /\ op = "search_book"
    /\ Last.req = "GET search"
    /\ resp.out = "ok"
    /\ resp.status = 200
    /\ \A i \in DOMAIN resp.page : ~IsBookLink(resp.page[i])

\* C8 as the specification states it: a first-tier answer of 200 with no
\* result ends search_book with "Not Found" and no later-tier request.
C8_StopsAtFirstTier ==
    EmptyDirectAnswer => pc = "return" /\ Result.status = "Not Found"

\* C8 as the code has it: a first-tier answer of 200 with no book link does
\* not end search_book; it goes on to request the results page, once, right
\* after the direct search, and "Not Found" is returned only after that page
\* has been fetched and saved.
C8_GoesOnToResultsPage ==
    /\ EmptyDirectAnswer => pc = "page_get" /\ ret = Pending
    /\ (InSearch /\ Requested("GET page"))
          => /\ Count("GET page") = 1
             /\ Count("GET search") = 1
             /\ \E i \in DOMAIN trace :
                   /\ i > 1
                   /\ trace[i].req = "GET page"
                   /\ trace[i - 1].req = "GET search"
    /\ (InSearch /\ pc = "return" /\ Result.status = "Not Found")
          => /\ Last = [req |-> "write search_page.html", out |-> "ok", status |-> 0]
             /\ Requested("GET page")

C8_Witness ==
    /\ EmptyDirectAnswer
    /\ pc = "page_get"
    /\ resp.page # <<>>

\* search_book returns after a direct search answered 200 that did not end
\* the search, that is, one without a book link.
ReturnsAfterEmptyDirectAnswer ==
    /\ InSearch
    /\ pc = "return"
    /\ Requested("GET page")
    /\ \E i \in DOMAIN trace :
          trace[i] = [req |-> "GET search", out |-> "ok", status |-> 200]

\* C9 as the specification states it: a search answer with an empty result
\* list ends in status "Not Found", never "Error", whatever the later steps
\* of search_book return.
C9_EmptyIsNotFound ==
    ReturnsAfterEmptyDirectAnswer => Result.status = "Not Found"

\* C9 as the code has it: after an empty first-tier answer the status is
\* decided by the results page: "Error" when its request raises, is not a 200
\* or the page cannot be saved; otherwise "Found" when the page carries a
\* book id, "Error" when it carries embedded state data and no id, and
\* "Not Found" only when it carries neither.
C9_StatusAfterEmptyDirectAnswer ==
    ReturnsAfterEmptyDirectAnswer
        => LET saved == Last = [req |-> "write search_page.html", out |-> "ok",
                                status |-> 0]
               ids == \E i \in DOMAIN resp.page :
                         HasBookItem(resp.page[i]) \/ HasDetail(resp.page[i])
               state == \E i \in DOMAIN resp.page : HasInitialState(resp.page[i])
           IN  Result.status =
                   IF ~saved THEN "Error"
                   ELSE IF ids THEN "Found"
                   ELSE IF state THEN "Error"
                   ELSE "Not Found"

C9_Witness ==
    /\ ReturnsAfterEmptyDirectAnswer
    /\ Last.req = "write search_page.html"
    /\ Last.out = "ok"
    /\ \E i \in DOMAIN resp.page : HasInitialState(resp.page[i])
    /\ Result.status = "Error"

\* C10: a well-formed search answer with a non-empty result list ends in
\* status "Found", and the title and author returned are non-blank whenever
\* the query's title and author are non-blank.
C10_FoundFieldsNotBlank ==
    (/\ InSearch
     /\ pc = "return"
     /\ Last.req = "GET search"
     /\ resp.out = "ok"
     /\ resp.status = 200
     /\ \E i \in DOMAIN resp.page : IsBookLink(resp.page[i])
     /\ ~IsBlank(args.title)
     /\ ~IsBlank(args.author))
        => /\ Result.status = "Found"
           /\ ~IsBlank(Result.title)
           /\ ~IsBlank(Result.author)

\* search_book returns a "Found" result built from the response in resp.
ReturnsFound ==
    /\ InSearch
    /\ pc = "return"
    /\ ret.raise = "none"
    /\ Result.status = "Found"

\* The response behind the returned result shows the download button of
\* the returned book.
MarkedDownloadable ==
    \E i \in DOMAIN resp.page : IsDownloadButton(resp.page[i], Result.book_id)

\* C11: in every "Found" result of search_book, from whichever tier,
\* download_url is non-empty only when the portal's response marked the
\* result as downloadable; for a result not so marked download_url is "".
C11_DownloadUrlOnlyWhenMarked ==
    ReturnsFound => (Result.download_url # <<>> => MarkedDownloadable)

\* The direct search has just been answered 200 with a body that is not
\* result data.
UnparsedDirectAnswer ==
    /\ op = "search_book"
    /\ Last.req = "GET search"
    /\ resp.out = "ok"
    /\ resp.status = 200
    /\ resp.body = Unparseable

\* C12 as the specification states it: a first-tier answer of 200 whose body
\* cannot be parsed as result data makes search_book return "Error" there,
\* without falling through to a later tier.
C12_ErrorOnUnparsedBody ==
    UnparsedDirectAnswer => pc = "return" /\ Result.status = "Error"

\* C12 as the code has it: a first-tier answer of 200 whose body is not
\* result data is read as a page without book links; search_book returns
\* nothing there and goes on to the results page, which it has not requested
\* before.
C12_UnparsedBodyFallsThrough ==
    UnparsedDirectAnswer
        => /\ pc = "page_get"
           /\ ret = Pending
           /\ ~Requested("GET page")
           /\ Count("GET search") = 1

C12_Witness ==
    /\ UnparsedDirectAnswer
    /\ pc = "page_get"
    /\ args.title # <<>>

\* The place of a search request in the order of the tiers.
TierRank(req) ==
    CASE req = "GET search home" -> 1
      [] req = "GET search" -> 2
      [] req = "GET page" -> 3
      [] OTHER -> 0

\* The requests of the running search_book come in the order of the tiers,
\* each at most once, and a first-tier result ends the call on the spot.
TiersInOrder ==
    InSearch
        => /\ \A r \in SearchRequests : Count(r) <= 1
           /\ \A i, j \in DOMAIN trace :
                 (i < j /\ TierRank(trace[i].req) > 0 /\ TierRank(trace[j].req) > 0)
                     => TierRank(trace[i].req) < TierRank(trace[j].req)
           /\ Requested("GET page")
                 => \E i \in DOMAIN trace :
                       /\ trace[i].req = "GET search"
                       /\ trace[i].out = "ok"
                       /\ i < Len(trace)
                       /\ trace[i + 1].req = "GET page"
           /\ (Last.req = "GET search" /\ resp.out = "ok" /\ DirectSearchFound(resp))
                 => /\ pc = "return"
                    /\ Result = DirectSearchResult(resp.page, args.title,
                                                   AuthorLocal(args.author))
                    /\ Result.status = "Found"
                    /\ ~Requested("GET page")

\* The results page is requested only from a state where the direct search
\* has been answered without a result, and a call about to return asks for
\* nothing more.
LaterTierOnlyAfterNoResult ==
    /\ (InSearch /\ ~Requested("GET page") /\ Requested("GET page")')
          => /\ Last.req = "GET search"
             /\ resp.out = "ok"
             /\ ~DirectSearchFound(resp)
             /\ ret = Pending
    /\ (InSearch /\ pc = "return") => trace' = trace

\* C13: the tiers are tried in a fixed order; a later tier's request is made
\* only if every earlier tier yielded no result, and when an earlier tier
\* produces a "Found" result search_book returns it without any further
\* HTTP request.
C13_TiersInFixedOrder == []TiersInOrder /\ [][LaterTierOnlyAfterNoResult]_vars

C13_Witness ==
    /\ ReturnsFound
    /\ Last.req = "GET search"
    /\ Requested("GET search home")
    /\ Len(resp.page) > 1

\* The mark of a results page that says it has no results.
IsNoResults(e) == e.cls = "no-results"

\* search_book returns from its last tier: the results page was fetched and
\* saved, and it holds no result container or link (no book id).
LastTierWithoutContainer ==
    /\ InSearch
    /\ pc = "return"
    /\ Last = [req |-> "write search_page.html", out |-> "ok", status |-> 0]
    /\ \A i \in DOMAIN resp.page :
          ~HasBookItem(resp.page[i]) /\ ~HasDetail(resp.page[i])

\* C14 as the specification states it: in the last tier, a page without a
\* results container yields "Not Found" when it carries a "no results"
\* marker, and "Error", never "Not Found", when it carries neither.
C14_ErrorWithoutMarker ==
    LastTierWithoutContainer
        => Result.status =
              IF \E i \in DOMAIN resp.page : IsNoResults(resp.page[i])
              THEN "Not Found" ELSE "Error"

\* C14 as the code has it: in the last tier, a page without a book id
\* yields "Error" when it carries embedded window.__INITIAL_STATE__ data and
\* "Not Found" otherwise, whether or not it carries a "no results" marker;
\* either result holds the query's title and author.
C14_NotFoundUnlessStateData ==
    LastTierWithoutContainer
        => /\ Result.status =
                 IF \E i \in DOMAIN resp.page : HasInitialState(resp.page[i])
                 THEN "Error" ELSE "Not Found"
           /\ Result.status = "Not Found"
                 => Result.message = <<"No results found after trying multiple approaches">>
           /\ Result.title = args.title
           /\ Result.author = AuthorLocal(args.author)
           /\ Result.download_url = <<>>

C14_Witness ==
    /\ LastTierWithoutContainer
    /\ resp.page # <<>>
    /\ \A i \in DOMAIN resp.page :
          ~IsNoResults(resp.page[i]) /\ ~HasInitialState(resp.page[i])
    /\ Result.status = "Not Found"

\* Whether an element opens a result item: a book link in the direct
\* search's answer, a result container or detail link on the results page.
OpensItem(e) ==
    IF Last.req = "GET search" THEN IsBookLink(e) ELSE HasBookItem(e) \/ HasDetail(e)

\* The first result item of the response behind the returned result: the
\* elements from the first one that opens an item up to the next such one.
FirstItem ==
    LET k == Find(resp.page, OpensItem)
        n == FindNext(resp.page, k, OpensItem)
    IN  SubSeq(resp.page, k, IF n = 0 THEN Len(resp.page) ELSE n - 1)

\* C15: in every tier a "Found" result describes the first result only:
\* book_id, title and author are all taken from that same first item (or,
\* for title and author, from the query), never from a later item or from
\* another element of the page.
C15_FieldsFromFirstItem ==
    ReturnsFound
        => /\ Result.book_id \in { DocIDMatch(FirstItem[1].href),
                                   BookItemMatch(FirstItem[1]) }
           /\ Result.title \in
                 {args.title}
                 \cup { Strip(FirstItem[i].text) :
                          i \in { j \in DOMAIN FirstItem :
                                    j = 1 \/ IsH3(FirstItem[j]) } }
           /\ Result.author \in
                 {AuthorLocal(args.author)}
                 \cup { Strip(FirstItem[i].text) :
                          i \in { j \in DOMAIN FirstItem : IsAuthLink(FirstItem[j]) } }

\* search_book returns after one of the requests made during the call
\* timed out.
ReturnsAfterTimeout ==
    /\ InSearch
    /\ pc = "return"
    /\ \E i \in DOMAIN trace : trace[i].out = "Timeout"

\* C16 as the specification states it: whenever an HTTP request made by
\* search_book times out, search_book returns "Error" with a message that
\* says the request timed out.
C16_TimeoutSaysTimedOut ==
    ReturnsAfterTimeout
        => /\ ret.raise = "none"
           /\ Result.status = "Error"
           /\ Contains(Result.message, <<"timed out">>)

\* C16 as the code has it: a timeout of the search's own home GET, search
\* GET or results-page GET is the last thing the call does and returns
\* "Error" with the exception's text, which says the request timed out; a
\* timeout of a request of the on-demand login() returns "Error" with the
\* message "Login required" instead.
C16_TimeoutMessageByStep ==
    ReturnsAfterTimeout
        => /\ ret.raise = "none"
           /\ Result.status = "Error"
           /\ Last.out = "Timeout"
           /\ Last.req \in SearchRequests
                 => /\ Result.message = ExcStr("Timeout")
                    /\ Contains(Result.message, <<"timed out">>)
           /\ Last.req \in LoginRequests
                 => Result.message = <<"Login required">>

C16_Witness ==
    /\ ReturnsAfterTimeout
    /\ Last.req = "GET page"
    /\ Contains(Result.message, <<"timed out">>)

\* C17: search_book never propagates an exception: every failure yields a
\* result of status "Error", and every "Error" result, the "Login required"
\* one and the one for a failed results-page fetch included, carries the
\* title and author search_book was called with (the author as passed or
\* with its surrounding whitespace stripped).
C17_ErrorCarriesTitleAndAuthor ==
    (InSearch /\ pc = "return")
        => /\ ret.raise = "none"
           /\ Result.status = "Error"
                 => /\ {"title", "author"} \subseteq Result.keys
                    /\ Result.title = args.title
                    /\ Result.author \in {args.author, Strip(args.author)}

\* The requests of download_book itself, and its steps on the disk.
PageRequests == {"GET download page"}
SubmitRequests == {"POST form", "GET form"}
FileRequests == {"GET file", "POST final form", "GET final form"}
DownloadRequests == PageRequests \cup SubmitRequests \cup FileRequests
DiskSteps == {"makedirs", "open", "read chunk"}

\* C18: download_book called with a non-empty username and password while
\* is_logged_in is false calls login() first; when login() fails it returns
\* success false with the message "Login required", without having
\* requested the download page and without having written a file.
C18_LoginRequiredBeforeDownload ==
    (InDownload /\ Truthy(username) /\ Truthy(password) /\ ~args.was_logged_in)
        => /\ trace # <<>>
           /\ trace[1].req = "cookies.clear"
           /\ (\E r \in DownloadRequests : Requested(r)) => login_success = "True"
           /\ login_success = "False"
                => /\ pc = "return"
                   /\ ret.raise = "none"
                   /\ Result.success = FALSE
                   /\ Result.message = <<"Login required">>
                   /\ \A r \in DownloadRequests \cup DiskSteps : ~Requested(r)
                   /\ dl = NoDownload

C18_Witness ==
    /\ InDownload
    /\ pc = "return"
    /\ login_success = "False"
    /\ Requested("POST login")
    /\ Result.message = <<"Login required">>
    /\ ~Result.success

\* The positions in the trace of the requests of one kind.
Positions(reqs) == { i \in DOMAIN trace : trace[i].req \in reqs }

\* The request at position i follows directly on an answered request of
\* kind reqs whose status was 200.
FollowsOk(i, reqs) ==
    /\ i > 1
    /\ trace[i - 1].req \in reqs
    /\ trace[i - 1].out = "ok"
    /\ trace[i - 1].status = 200

\* C19: within one call of download_book the requests are issued strictly
\* in the order download-page GET, form submission, file fetch, each at most
\* once, and each only after the one before it has returned with status 200.
C19_DownloadRequestsInOrder ==
    InDownload
        => /\ Cardinality(Positions(PageRequests)) <= 1
           /\ Cardinality(Positions(SubmitRequests)) <= 1
           /\ Cardinality(Positions(FileRequests)) <= 1
           /\ \A i \in Positions(PageRequests) :
                 \A j \in 1..(i - 1) : trace[j].req \in LoginRequests
           /\ \A i \in Positions(SubmitRequests) : FollowsOk(i, PageRequests)
           /\ \A i \in Positions(FileRequests) : FollowsOk(i, SubmitRequests)
           /\ \A i \in Positions(DiskSteps) : Positions(FileRequests) # {}

C19_Witness ==
    /\ InDownload
    /\ pc = "return"
    /\ Positions(PageRequests) # {}
    /\ Positions(SubmitRequests) # {}
    /\ Positions(FileRequests) # {}
    /\ Result.success

\* The last thing the running download_book did was a request of kind
\* reqs, and it was answered.
Answered(reqs) == InDownload /\ Last.req \in reqs /\ resp.out = "ok"

\* The call ends here with success false and this message.
FailsWith(message) ==
    /\ pc = "return"
    /\ ret.raise = "none"
    /\ Result = DownloadFailed(message)

\* The step-specific failures of download_book, each seen right after the
\* request that failed.
FailsAtStep ==
    /\ (Answered(PageRequests) /\ resp.status # 200)
          => FailsWith(<<"Download page access failed: ", ToString(resp.status)>>)
    /\ (Answered(PageRequests) /\ resp.status = 200
          /\ FindDownloadForm(resp.page) = 0)
          => FailsWith(<<"Could not find download form">>)
    /\ (Answered(SubmitRequests) /\ resp.status # 200)
          => FailsWith(<<"Download confirmation failed: ", ToString(resp.status)>>)
    /\ (Answered(SubmitRequests) /\ resp.status = 200
          /\ DownloadLink(resp) = <<>> /\ FindDownloadForm(resp.page) = 0)
          => FailsWith(<<"Could not find download link or form">>)
    /\ (Answered(FileRequests) /\ resp.status # 200)
          => /\ FailsWith(<<"File download failed: ", ToString(resp.status)>>)
             /\ ~dl.made_dirs
             /\ dl.file = "none"
    /\ (InDownload /\ pc = "return" /\ ~Result.success)
          => /\ Result.message # <<>>
             /\ dl.file # "open"

\* A call of download_book that is about to return issues nothing more.
NothingAfterReturn == (InDownload /\ pc = "return") => trace' = trace

\* C20: in download_book a failure at any step (download page not 200,
\* form missing, submission not 200, neither link nor form, file fetch not
\* 200) ends the call at that step with success false and a message naming
\* the step (with the status code for a response that is not 200); no later
\* request is issued.
C20_FailureEndsAtStep == []FailsAtStep /\ [][NothingAfterReturn]_vars

C20_Witness ==
    /\ Answered(SubmitRequests)
    /\ resp.status = 500
    /\ resp.page # <<>>
    /\ pc = "return"
    /\ Result.message = <<"Download confirmation failed: ", "500">>

\* The download page was answered 200 and holds no form with the id or the
\* name downloadForm.
PageWithoutDownloadForm ==
    /\ Answered(PageRequests)
    /\ resp.status = 200
    /\ \A i \in DOMAIN resp.page :
          ~IsFormById(resp.page[i]) /\ ~IsFormByName(resp.page[i])

\* C21: when the download page returns 200 but holds no download form,
\* download_book returns success false with a message naming the download
\* form as missing, submits nothing, and creates neither the output file nor
\* its parent directories.
C21_NoFormNoSubmission ==
    PageWithoutDownloadForm
        => /\ pc = "return"
           /\ ret.raise = "none"
           /\ ~Result.success
           /\ Result.message = <<"Could not find download form">>
           /\ \A r \in SubmitRequests \cup FileRequests \cup DiskSteps : ~Requested(r)
           /\ ~dl.made_dirs
           /\ dl.file = "none"

C21_Witness ==
    /\ PageWithoutDownloadForm
    /\ \E i \in DOMAIN resp.page : resp.page[i].tag = "form"
    /\ pc = "return"
    /\ Result.message = <<"Could not find download form">>

\* The step that submits the download form.
SubmitsForm == InDownload /\ pc = "dl_submit" /\ pc' # "dl_submit"

\* The form that is being submitted, and the payload sent with it.
SubmittedForm == resp.page[FindDownloadForm(resp.page)]
Payload == dl.sent[1]

\* The options of a field that are its PDF option: by value, or by text.
PdfOptions(field) ==
    { i \in DOMAIN field.options :
        \/ field.options[i].value = "pdf"
        \/ Contains(Lower(field.options[i].text), <<"pdf">>) }

\* The value an option stands for.
OptionValue(o) == IF o.value = "absent" THEN "" ELSE o.value

\* The payload follows the format rule for this field.
FormatRule(field, payload) ==
    /\ "format" \in DOMAIN payload
    /\ IF PdfOptions(field) # {}
       THEN \E i \in PdfOptions(field) :
               payload["format"] = IF field.options[i].value = "absent" THEN "pdf"
                                   ELSE field.options[i].value
       ELSE field.options # <<>> => payload["format"] = OptionValue(field.options[1])

\* Every field named "format" of the submitted form is sent by the rule.
FormatSentByRule ==
    SubmitsForm
        => /\ Len(dl.sent') = 1
           /\ \A i \in DOMAIN SubmittedForm.fields :
                 SubmittedForm.fields[i].name = "format"
                     => FormatRule(SubmittedForm.fields[i], Payload')

\* C22: in the payload built from the download form, the value sent for a
\* field named "format" is the PDF option whenever the field offers one,
\* wherever that option stands; when it offers none, the value is the
\* field's first option.
C22_FormatPrefersPdf == [][FormatSentByRule]_vars

C22_Witness ==
    /\ InDownload
    /\ dl.sent # <<>>
    /\ "format" \in DOMAIN Payload
    /\ Payload["format"] = "2"

\* C23: every form submission of step 3 carries a document id field
\* (docID): when the form has no docID input the field is added from the
\* book_id argument, for every book_id, the empty string included.
C23_AlwaysCarriesDocID ==
    (InDownload /\ dl.sent # <<>>)
        => "docID" \in DOMAIN Payload

\* The confirmation page in resp holds a hyperlink (an <a> with a target)
\* whose text contains one of the download phrases.
HyperlinkWithPhrase ==
    \E i \in DOMAIN resp.page :
        IsDownloadLink(resp.page[i]) /\ resp.page[i].href # <<>>

\* The step that fetches the file.
FetchesFile == InDownload /\ pc = "dl_fetch" /\ pc' # "dl_fetch"

\* A confirmation page with such a hyperlink leads to the file fetch, and
\* the fetch goes to a hyperlink target exactly when the page has one.
LinkBeforeForm ==
    (Answered(SubmitRequests) /\ resp.status = 200 /\ HyperlinkWithPhrase)
        => pc = "dl_fetch"

FormOnlyWithoutLink ==
    FetchesFile
        => /\ HyperlinkWithPhrase <=> Requested("GET file")'
           /\ (Requested("POST final form")' \/ Requested("GET final form")')
                 => ~HyperlinkWithPhrase

\* C24: on the confirmation page, if any hyperlink's visible text contains
\* one of the download phrases, the file is fetched from a hyperlink target
\* and the fallback form is not submitted; the fallback form is submitted
\* only when no hyperlink with such text exists.
C24_HyperlinkPreferred == []LinkBeforeForm /\ [][FormOnlyWithoutLink]_vars

\* download_book returns success.
ReturnsSuccess ==
    /\ InDownload
    /\ pc = "return"
    /\ ret.raise = "none"
    /\ Result.success

\* The extension the content-type of the file response calls for.
ChosenExtension ==
    IF \E i \in DOMAIN resp.ctype : LowerTok(resp.ctype[i]) = "pdf" THEN ".pdf"
    ELSE IF \E i \in DOMAIN resp.ctype : LowerTok(resp.ctype[i]) = "epub" THEN ".epub"
    ELSE ".bin"

\* An extension without its dot, as it is and in upper case.
WithoutDot(ext) ==
    CASE ext = ".pdf" -> "pdf" [] ext = ".epub" -> "epub" [] ext = ".bin" -> "bin"
UpperWithoutDot(ext) ==
    CASE ext = ".pdf" -> "PDF" [] ext = ".epub" -> "EPUB" [] ext = ".bin" -> "BIN"

\* C25 as the specification states it: on every successful download_book
\* the returned file_path ends with the extension chosen from the
\* content-type (.pdf, else .epub, else .bin), the file written is at
\* exactly that path, and the format tag is that extension without its dot.
C25_PathEndsWithExtension ==
    ReturnsSuccess
        => /\ Result.file_path # <<>>
           /\ Result.file_path[Len(Result.file_path)] = ChosenExtension
           /\ dl.path = Result.file_path
           /\ Result.format = WithoutDot(ChosenExtension)

\* C25 as the code has it: on every successful download_book the returned
\* file_path ends with the chosen extension up to letter case (an output
\* path that already ends with it in another case is kept as it is), the
\* file written and closed is at exactly that path, and the format tag is
\* the extension without its dot in upper case.
C25_PathEndsWithExtensionAnyCase ==
    ReturnsSuccess
        => /\ Result.file_path # <<>>
           /\ LowerTok(Result.file_path[Len(Result.file_path)]) = ChosenExtension
           /\ LowerTok(args.output_path[Len(args.output_path)]) = ChosenExtension
                 => Result.file_path = args.output_path
           /\ dl.path = Result.file_path
           /\ dl.file = "closed"
           /\ Result.format = UpperWithoutDot(ChosenExtension)

C25_Witness ==
    /\ ReturnsSuccess
    /\ ChosenExtension = ".pdf"
    /\ Result.file_path = <<"out/", "Dune", ".PDF">>
    /\ Result.format = "PDF"

\* C26: the final file path computed by download_book is a function of the
\* content-type and the output path only, and feeding a computed final path
\* back in as output path with the same content-type returns it unchanged.
C26_FinalPathIdempotent ==
    (InDownload /\ dl.ext # "")
        => /\ dl.ext = ChosenExtension
           /\ dl.path = FinalPath(args.output_path, ChosenExtension)
           /\ FinalPath(dl.path, ChosenExtension) = dl.path

C26_Witness ==
    /\ InDownload
    /\ dl.ext = ".epub"
    /\ args.output_path = <<"out/", "Dune", ".PDF">>
    /\ dl.path = <<"out/", "Dune", ".epub">>

\* The step in which onProgress is invoked (calls counts the invocations,
\* last holds the arguments of the latest one).
Reports == dl'.calls > dl.calls

\* Each invocation is one more, with more bytes received than the one
\* before and the same total, while the body of the fetched file is read.
ProgressIncreases ==
    Reports
        => /\ dl'.calls = dl.calls + 1
           /\ dl'.last[1] > dl.last[1]
           /\ dl.calls > 0 => dl'.last[2] = dl.last[2]
           /\ pc = "dl_stream"
           /\ pc' = "dl_stream"
           /\ \E r \in FileRequests : Requested(r)
           /\ ret = Pending

\* C27: within one download_book call, successive onProgress invocations
\* carry strictly increasing bytesReceived values and the same bytesTotal,
\* and every invocation happens between the start of the file fetch and the
\* return of download_book, none after it.
C27_ProgressMonotonic == [][ProgressIncreases]_vars

C27_Witness ==
    /\ InDownload
    /\ dl.calls = 2
    /\ dl.last = <<3, 3>>

\* C28: onProgress is invoked only when the file response declared a
\* content-length (a total that is not zero): without one the callback is
\* never invoked, and it is never invoked with bytesTotal = 0.
C28_ProgressOnlyWithTotal ==
    InDownload
        => /\ dl.calls > 0
                => /\ resp.clen # 0
                   /\ dl.last[2] = resp.clen
                   /\ dl.last[2] # 0
           /\ (pc \in {"dl_stream", "return"} /\ resp.clen = 0) => dl.calls = 0

C28_Witness ==
    /\ ReturnsSuccess
    /\ args.callback
    /\ resp.clen = 0
    /\ dl.downloaded > 0
    /\ dl.calls = 0

\* C29: for a body of N > 0 bytes delivered in chunks with declared
\* content-length N, the increases of bytesReceived over all onProgress
\* invocations sum to exactly N and the last invocation reports
\* bytesReceived = bytesTotal = N, for every chunking of the body (calls to
\* download_book that pass a callback).
C29_ProgressSumsToLength ==
    /\ (InDownload /\ args.callback /\ resp.clen # 0 /\ dl.downloaded > 0)
          => dl.last = <<dl.downloaded, resp.clen>>
    /\ (ReturnsSuccess /\ args.callback /\ resp.clen > 0 /\ dl.downloaded = resp.clen)
          => /\ dl.last = <<resp.clen, resp.clen>>
             /\ dl.calls >= 1
             /\ dl.calls <= dl.chunks

C29_Witness ==
    /\ ReturnsSuccess
    /\ args.callback
    /\ resp.clen = 3
    /\ dl.downloaded = 3
    /\ dl.chunks = 2
    /\ dl.last = <<3, 3>>

\* A message that says the request timed out.
SaysTimedOut(message) ==
    \/ Contains(message, <<"timed out">>)
    \/ message = <<"Download timed out">>

\* download_book returns after a request or step of the call ended in an
\* exception.
ReturnsAfterException ==
    /\ InDownload
    /\ pc = "return"
    /\ Last.out # "ok"

\* The requests and steps of download_book itself.
DownloadSteps == DownloadRequests \cup DiskSteps

\* C30: download_book never propagates an exception: a timeout of any of
\* its requests (download page, form submission, file fetch, reading the
\* body) yields success false with a "timed out" message, and any other
\* exception raised at any of its steps, writing the body to disk included,
\* yields success false with the exception's text.
C30_ExceptionsBecomeFailures ==
    (InDownload /\ pc = "return")
        => /\ ret.raise = "none"
           /\ (Last.out # "ok" /\ Last.req \in DownloadSteps)
                 => /\ ~Result.success
                    /\ Result.file_path = <<>>
                    /\ IF Last.out = "Timeout"
                       THEN /\ SaysTimedOut(Result.message)
                            /\ Result.message = <<"Download timed out">>
                       ELSE Result.message = ExcStr(Last.out)

C30_Witness ==
    /\ ReturnsAfterException
    /\ Last.req = "read chunk"
    /\ Last.out = "ConnectionError"
    /\ dl.downloaded > 0
    /\ Result.message = ExcStr("ConnectionError")


\* ------------------------------------------------------------------ C31..C40

\* C31: two clients that differ only in whether a debug callback is supplied
\* issue the same requests, return the same results and end with the same
\* is_logged_in.  A client without a callback ends every call by returning a
\* value after it has touched the session at least once (cookies cleared or a
\* request sent); so must a client with a callback, whatever the callback does:
\* no call ends with the callback's exception, and none ends before its first
\* request.
C31_CallbackChangesNothing ==
    pc = "return" => /\ ret.raise # CallbackError
                     /\ ret.value # <<>>
                     /\ trace # <<>>

\* download_book returns success false.
ReturnsFailure ==
    /\ InDownload
    /\ pc = "return"
    /\ ret.raise = "none"
    /\ ~Result.success

\* C38: whenever download_book returns success false, the call has created or
\* modified no file at the output path, also when the failure comes after the
\* streamed write has begun.
C38_FailureLeavesNoFile == ReturnsFailure => dl.file = "none"

\* C39: every result with status "Found" has a non-empty book_id and the
\* view_url {base}/lib/{libraryId}/detail.action?docID={book_id}, and its
\* download_url, when non-empty, is that view_url followed by
\* "&download=true".
C39_FoundHasIdAndUrls ==
    ReturnsFound =>
        /\ Result.book_id # ""
        /\ Result.view_url = ViewUrl(Result.book_id)
        /\ Result.download_url # <<>>
              => Result.download_url = Result.view_url \o <<"&download=true">>


\* The workers that are inside a call of the shared portal.
InPortalCall == { w \in DOMAIN workers : workers[w].at \in {"login", "call"} }

\* C32: the application never has two operations outstanding on the same
\* EbookCentralPortal at once: whatever the user does (start a search,
\* download one book, download all), at most one worker is executing a
\* portal call on the shared client at any moment.
C32_OnePortalCallAtATime == Cardinality(InPortalCall) <= 1

\* The signals worker w has emitted whose name is in names, in order.
Emitted(w, names) ==
    LET Mine(s) == s.worker = w /\ s.sig \in names IN SelectSeq(signals, Mine)

StartedSignals == {"searchStarted", "downloadStarted"}
TerminalSignals == {"searchResult", "searchError", "downloadComplete", "downloadError"}

\* The calls of search_book and download_book worker w has made.
BookCalls(w) ==
    LET ForBook(c) == c.method \in {"search_book", "download_book"}
    IN SelectSeq(workers[w].calls, ForBook)

\* C33: the download worker never calls download_book with an empty download
\* URL: for a book without one it emits downloadStarted and downloadError,
\* makes no portal call for it, and goes on to the next book.
C33_NoDownloadWithoutUrl ==
    \A w \in DOMAIN workers :
        LET self == workers[w] IN
        self.kind = "download" =>
            /\ \A k \in DOMAIN self.calls :
                  self.calls[k].method = "download_book" => self.calls[k].url # <<>>
            /\ \A k \in 1..self.i :
                  self.books[k].download_url = <<>> =>
                      LET Its(s) == s.worker = w /\ s.book = self.books[k].id
                          its == SelectSeq(signals, Its)
                      IN /\ Len(its) = 2
                         /\ its[1].sig = "downloadStarted"
                         /\ its[2].sig = "downloadError"
                         /\ \A c \in DOMAIN self.calls : self.calls[c].book # self.books[k].id
            /\ (self.at = "done" /\ self.i >= 1 /\ ~self.cancel_flag)
                  => self.i = Len(self.books)

\* A download worker has finished a list whose first book has no download URL
\* and whose second has one: the second was handed to the portal.
C33_Witness ==
    \E w \in DOMAIN workers :
        /\ workers[w].kind = "download"
        /\ workers[w].at = "done"
        /\ Len(workers[w].books) = 2
        /\ workers[w].books[1].download_url = <<>>
        /\ workers[w].books[2].download_url # <<>>
        /\ Len(BookCalls(w)) = 1
        /\ BookCalls(w)[1].book = workers[w].books[2].id

\* C34: every run of SearchWorker.search and of DownloadWorker.download emits
\* finished exactly once, on every path: never more than once, and once when
\* the run is over.
C34_FinishedExactlyOnce ==
    \A w \in DOMAIN workers :
        /\ Len(Emitted(w, {"finished"})) <= 1
        /\ workers[w].at = "done" => Len(Emitted(w, {"finished"})) = 1

\* The Started, terminal and finished signals of worker w, in order.
Course(w) == Emitted(w, StartedSignals \cup TerminalSignals \cup {"finished"})

\* The terminal signals that answer a Started signal.
Answers(started) ==
    IF started = "searchStarted" THEN {"searchResult", "searchError"}
    ELSE {"downloadComplete", "downloadError"}

\* C35: in a worker run each Started(book) is followed by exactly one terminal
\* signal of its kind for the same book before the next Started and before
\* finished, and no terminal signal is emitted for a book that was not
\* started: in the course of the run a Started signal is the last one so far
\* or is followed at once by a terminal signal for its book, a terminal
\* signal follows at once the Started signal of its book, and no Started
\* signal is left open when the run is over.
C35_StartedThenOneTerminal ==
    \A w \in DOMAIN workers :
        LET c == Course(w) IN
        /\ \A k \in DOMAIN c :
            /\ c[k].sig \in StartedSignals =>
                  \/ k = Len(c)
                  \/ c[k + 1].sig \in Answers(c[k].sig) /\ c[k + 1].book = c[k].book
            /\ c[k].sig \in TerminalSignals =>
                  /\ k > 1
                  /\ c[k - 1].sig \in StartedSignals
                  /\ c[k].sig \in Answers(c[k - 1].sig)
                  /\ c[k - 1].book = c[k].book
        /\ (workers[w].at = "done" /\ c # <<>>) => c[Len(c)].sig = "finished"

\* A run over two books has ended, one book with an Error signal and one
\* with a Result or Complete signal.
C35_Witness ==
    \E w \in DOMAIN workers :
        /\ workers[w].at = "done"
        /\ Len(Emitted(w, StartedSignals)) = 2
        /\ Len(Emitted(w, {"searchError", "downloadError"})) = 1
        /\ Len(Emitted(w, {"searchResult", "downloadComplete"})) = 1

\* Worker w begins a book in this step: a Started signal or a portal call
\* for a book is added.
BeginsBook(w) ==
    \/ Len(Emitted(w, StartedSignals)') > Len(Emitted(w, StartedSignals))
    \/ Len(BookCalls(w)') > Len(BookCalls(w))

\* What a step does once the cancel flag is set: from the top of the loop the
\* worker leaves the loop without a signal or a call; once out of the loop it
\* begins no book; a book in flight ends with its terminal signal.
CancelStops ==
    \A w \in DOMAIN workers :
        LET self == workers[w] IN
        /\ (self.at = "loop" /\ self.cancel_flag /\ workers'[w] # self)
              => /\ workers'[w].at = "finally"
                 /\ signals' = signals
                 /\ workers'[w].calls = self.calls
        /\ self.at \in {"finally", "done"} => ~BeginsBook(w)
        /\ BeginsBook(w) => self.at = "loop" /\ ~self.cancel_flag
        /\ (self.at = "call" /\ workers'[w].at # "call")
              => /\ Len(signals') = Len(signals) + 1
                 /\ signals'[Len(signals')].sig \in TerminalSignals
                 /\ signals'[Len(signals')].book = self.books[self.i + 1].id

\* A run that is over has emitted finished.
FinishedWhenDone ==
    \A w \in DOMAIN workers :
        workers[w].at = "done" => Emitted(w, {"finished"}) # <<>>

\* C36: once the cancel flag has been observed at the top of the loop, the
\* worker starts no further book (no Started signal, no portal call), the
\* book in flight still ends with its terminal signal, and finished is still
\* emitted.
C36_CancelStopsAtLoopTop == []FinishedWhenDone /\ [][CancelStops]_vars

\* A cancelled run has ended with books left: the book in flight when
\* cancel() came got its terminal signal, the next one was never started.
C36_Witness ==
    \E w \in DOMAIN workers :
        /\ workers[w].at = "done"
        /\ workers[w].cancel_flag
        /\ workers[w].i = 1
        /\ Len(workers[w].books) = 2
        /\ Len(Emitted(w, StartedSignals)) = 1
        /\ Len(Emitted(w, TerminalSignals)) = 1
        /\ Len(Emitted(w, {"finished"})) = 1

\* C37: when a worker's initial login fails, the worker emits loginRequired
\* and processes no book: no Started signal, no search_book or download_book
\* call and no terminal signal occurs in that run.
C37_FailedLoginProcessesNothing ==
    \A w \in DOMAIN workers :
        workers[w].login = "False" =>
            /\ Emitted(w, {"loginRequired"}) # <<>>
            /\ Emitted(w, StartedSignals \cup TerminalSignals) = <<>>
            /\ BookCalls(w) = <<>>
            /\ workers[w].i = 0

\* A run with books to process has ended after its login failed.
C37_Witness ==
    \E w \in DOMAIN workers :
        /\ workers[w].login = "False"
        /\ workers[w].at = "done"
        /\ Len(workers[w].books) = 2

\* C40: "download all" starts downloads only for books of the most recent
\* search, the books whose cards are displayed: the worker it creates holds
\* no book whose card has been cleared.
C40_DownloadAllOnlyShownBooks ==
    [][DownloadAll =>
          \A k \in DOMAIN workers'[Len(workers')].books :
              workers'[Len(workers')].books[k].id \in app.cards]_vars
====
